---------------------------- MODULE Spec2Model ----------------------------
(***************************************************************************)
(* A model of hnsw-itu: the SimpleGraph store, the beam search and the     *)
(* neighbour-selection heuristic of src/src/index/nsw.rs, the NSW builder  *)
(* and the layered HNSW builder of src/src/index/hnsw.rs (serial add and   *)
(* extend_parallel), and the query of both indexes.                        *)
(*                                                                         *)
(* Conventions.  An Idx is a natural number counted from 0, as in the      *)
(* code; node v of a graph is nodes[v + 1] and its adjacency set is        *)
(* adj_lists[v + 1].  A MinMaxHeap of Distance records is the set of its   *)
(* records (the code never pushes the same record twice).  A HashSet is    *)
(* enumerated in an unspecified order: every operator that iterates one    *)
(* and whose result may depend on the order yields the set of all          *)
(* results.                                                                *)
(***************************************************************************)
EXTENDS Integers, Sequences, FiniteSets, TLC

\* ------------------------------------------------------------- bounds
\* Width of a sketch in bits (the code's sketches hold 16 * 64 bits).
SketchBits == 2
\* Most points a builder receives.
MaxNodes == 4
\* Largest level random_level may draw.
MaxLevel == 2
\* Largest connections / max_connections / ef_construction of a configuration.
MaxConn == 2
MaxEf == 2
\* The warm-up quorum of extend_parallel (50_000 in the code) and the size of
\* a chunk (rayon::current_num_threads() * 32 in the code), scaled down.
WarmUp == 2
ChunkSize == 2
\* Most points of an index that is queried, and the largest k and ef of a query.
QueryNodes == 3
MaxK == 3
\* Most nodes of a SimpleGraph driven directly, and the longest list handed
\* to add_neighbors.
GraphNodes == 3
MaxList == 2
\* nodes of the builders that are given any NSWOptions whatever
ConfigNodes == 2
\* bits of the points stored through the observed graph calls
GraphBits == 1
\* select_neighbors: integer points 0..MaxInt, keys below MaxCand, m up to MaxM
MaxInt == 4
MaxCand == 3
MaxM == 3

\* Distance records compared: distances and keys 0..Ord*, points 0..OrdPoints.
OrdDistances == 2
OrdKeys == 2
OrdPoints == 1

\* usize is UsizeBits wide in the calls of extend_parallel (64 in the code),
\* and their input is made of the sketches over ExtBits bits.
UsizeBits == 3
ExtBits == 1

\* knns: at most MaxQueries queries of KnnsBits bits, on an index of points
\* of KnnsBits bits whose pool was made with
\* 1..PoolSets sets, by 1..PoolThreads threads (both are
\* rayon::current_num_threads() in the code, read at different times).
MaxQueries == 3
KnnsBits == 1
PoolSets == 2
PoolThreads == 2

\* Scenario S1: at most S1Raised of its points draw a level above 0.
S1Raised == 3

\* The searches made step by step have ef in 0..SearchEf.
SearchEf == 3

\* At most MaxResets calls of reset on a set (one round of the counter and one more).
MaxResets == 4

\* Sets of at most BitSetN (BitSet) and GenSetN (GenerationSet) elements; the
\* generation counter is GenBits wide (16 in the code).
BitSetN == 6
GenSetN == 2
GenBits == 2

\* ------------------------------------------------------------- points
\* A sketch is the set of the positions of its one-bits.
Sketches == SUBSET (1..SketchBits)

\* Point::distance for Sketch: the number of differing bits.
SketchDistance(a, b) == Cardinality((a \ b) \cup (b \ a))

\* Point::distance for i32: |other - self|.
IntDistance(a, b) == IF b >= a THEN b - a ELSE a - b

\* The distance functions the code hands to search, select_neighbors and
\* insert_neighbors, by name: Point::distance on sketches or on integers, and
\* the closures used on an upper layer, whose nodes are pairs <<point, down>>:
\* |(p, _), q| p.distance(q) and |(p, _), (q, _)| p.distance(q).
distance_fn(f, a, b) ==
    CASE f = "sketch" -> SketchDistance(a, b)
      [] f = "int" -> IntDistance(a, b)
      [] f = "layer_query" -> SketchDistance(a[1], b)
      [] f = "layer" -> SketchDistance(a[1], b[1])

\* ------------------------------------------------------------- SimpleGraph
EmptyGraph == [nodes |-> << >>, adj_lists |-> << >>]

size(g) == Len(g.nodes)

\* is_in_bounds looking at v alone.
is_in_bounds_first_only(g, v, w) == v < Len(g.adj_lists)

is_in_bounds(g, v, w) == v < Len(g.adj_lists) /\ w < Len(g.adj_lists)

connect_directed(g, src, target) ==
    IF src < Len(g.adj_lists)
    THEN [g EXCEPT !.adj_lists[src + 1] = @ \cup {target}]
    ELSE g

disconnect_directed(g, src, target) ==
    IF src < Len(g.adj_lists)
    THEN [g EXCEPT !.adj_lists[src + 1] = @ \ {target}]
    ELSE g

\* add returns the graph; the new identifier is the size before the call.
\* add without self.adj_lists.push(HashSet::new()).
add_without_adjacency(g, t) == [nodes |-> Append(g.nodes, t), adj_lists |-> g.adj_lists]

add(g, t) == [nodes |-> Append(g.nodes, t), adj_lists |-> Append(g.adj_lists, {})]

get(g, v) == g.nodes[v + 1]

has(g, v) == v < Len(g.nodes)

\* add_edge with the second connect_directed left out.
add_edge_one_way(g, v, w) ==
    IF ~is_in_bounds(g, v, w) THEN g
    ELSE connect_directed(g, v, w)

\* add_edge with the first connect_directed left out.
add_edge_back_only(g, v, w) ==
    IF ~is_in_bounds(g, v, w) THEN g
    ELSE connect_directed(g, w, v)

add_edge(g, v, w) ==
    IF ~is_in_bounds(g, v, w) THEN g
    ELSE connect_directed(connect_directed(g, v, w), w, v)

\* remove_edge with the second disconnect_directed left out.
remove_edge_forward_only(g, v, w) ==
    IF ~is_in_bounds(g, v, w) THEN g
    ELSE disconnect_directed(g, v, w)

remove_edge(g, v, w) ==
    IF ~is_in_bounds(g, v, w) THEN g
    ELSE disconnect_directed(disconnect_directed(g, v, w), w, v)

neighborhood(g, v) == IF v < Len(g.adj_lists) THEN g.adj_lists[v + 1] ELSE {}

\* clear_edges snapshots the neighbours of v and removes each edge; the
\* removals touch different entries, so their order does not matter.
RECURSIVE remove_all(_, _, _)
remove_all(g, v, ws) ==
    IF ws = {} THEN g
    ELSE LET w == CHOOSE x \in ws : TRUE
         IN  remove_all(remove_edge(g, v, w), v, ws \ {w})

clear_edges(g, v) == remove_all(g, v, neighborhood(g, v))

RECURSIVE add_edges(_, _)
add_edges(g, edges) ==
    IF edges = << >> THEN g
    ELSE add_edges(add_edge(g, Head(edges)[1], Head(edges)[2]), Tail(edges))

\* (a variant that also joins each neighbour to the next one)
add_neighbors_chained(g, v, neighbors) ==
    add_edges(g, [i \in 1..Len(neighbors) |-> <<v, neighbors[i]>>]
                 \o [i \in 1..(Len(neighbors) - 1) |-> <<neighbors[i], neighbors[i + 1]>>])

add_neighbors(g, v, neighbors) ==
    add_edges(g, [i \in 1..Len(neighbors) |-> <<v, neighbors[i]>>])

\* ------------------------------------------------------------- Distance records
NewDistance(d, k, p) == [distance |-> d, key |-> k, point |-> p]

\* Distance::cmp comparing the distances only.
cmp_by_distance(a, b) ==
    IF a.distance < b.distance THEN "Less"
    ELSE IF a.distance > b.distance THEN "Greater"
    ELSE "Equal"

\* Distance::cmp: match self.distance.cmp(&other.distance), and on Equal
\* self.key.cmp(&other.key).
cmp(a, b) ==
    IF a.distance < b.distance THEN "Less"
    ELSE IF a.distance > b.distance THEN "Greater"
    ELSE IF a.key < b.key THEN "Less"
    ELSE IF a.key > b.key THEN "Greater"
    ELSE "Equal"

\* Distance::cmp: a < b.
DistanceLess(a, b) ==
    \/ a.distance < b.distance
    \/ a.distance = b.distance /\ a.key < b.key

peek_min(h) == CHOOSE x \in h : \A y \in h : ~DistanceLess(y, x)
peek_max(h) == CHOOSE x \in h : \A y \in h : ~DistanceLess(x, y)

\* drain_desc: the heap drained from its far end.
drain_desc(h) ==
    LET RECURSIVE go(_, _)
        go(rest, out) == IF rest = {} THEN out
                         ELSE go(rest \ {peek_max(rest)}, Append(out, peek_max(rest)))
    IN  go(h, << >>)

RECURSIVE drain_asc(_)
drain_asc(h) ==
    IF h = {} THEN << >>
    ELSE LET x == peek_min(h) IN <<x>> \o drain_asc(h \ {x})

\* The drained records with take(k) left out.
take_without_limit(s, k) == s

take(s, k) == SubSeq(s, 1, IF k < Len(s) THEN k ELSE Len(s))

Keys(s) == [i \in 1..Len(s) |-> s[i].key]

\* ------------------------------------------------------------- select_neighbors
RECURSIVE select_loop(_, _, _, _)
select_loop(candidates, m, return_list, f) ==
    IF candidates = {} THEN return_list
    ELSE LET e == peek_min(candidates)
         IN  IF Len(return_list) >= m THEN return_list
             ELSE IF \A i \in 1..Len(return_list) :
                        distance_fn(f, e.point, return_list[i].point) > e.distance
                  THEN select_loop(candidates \ {e}, m, Append(return_list, e), f)
                  ELSE select_loop(candidates \ {e}, m, return_list, f)

\* select_neighbors accepting e also when an accepted r is exactly as far
\* from e as the query is (>= for >).
RECURSIVE select_loop_nonstrict(_, _, _, _)
select_loop_nonstrict(candidates, m, return_list, f) ==
    IF candidates = {} THEN return_list
    ELSE LET e == peek_min(candidates)
         IN  IF Len(return_list) >= m THEN return_list
             ELSE IF \A i \in 1..Len(return_list) :
                        distance_fn(f, e.point, return_list[i].point) >= e.distance
                  THEN select_loop_nonstrict(candidates \ {e}, m, Append(return_list, e), f)
                  ELSE select_loop_nonstrict(candidates \ {e}, m, return_list, f)

select_neighbors_nonstrict(candidates, m, f) == select_loop_nonstrict(candidates, m, << >>, f)

\* select_neighbors breaking out of its loop one record late
\* (return_list.len() > m for >= m).
RECURSIVE select_loop_one_more(_, _, _, _)
select_loop_one_more(candidates, m, return_list, f) ==
    IF candidates = {} THEN return_list
    ELSE LET e == peek_min(candidates)
         IN  IF Len(return_list) > m THEN return_list
             ELSE IF \A i \in 1..Len(return_list) :
                        distance_fn(f, e.point, return_list[i].point) > e.distance
                  THEN select_loop_one_more(candidates \ {e}, m, Append(return_list, e), f)
                  ELSE select_loop_one_more(candidates \ {e}, m, return_list, f)

select_neighbors_one_more(candidates, m, f) == select_loop_one_more(candidates, m, << >>, f)

select_neighbors(candidates, m, f) == select_loop(candidates, m, << >>, f)

\* ------------------------------------------------------------- search
\* The state of one beam search: the visited set, the heaps w and cands, and
\* rem, the neighbours of the popped candidate that the for loop has not
\* enumerated yet (empty at the head of the while loop).
search_init(g, query, ep, f) ==
    LET ep_elem == get(g, ep)
        dist == NewDistance(distance_fn(f, ep_elem, query), ep, ep_elem)
    IN  [visited |-> {ep}, w |-> {dist}, cands |-> {dist}, rem |-> {}, done |-> FALSE]

\* The body of the for loop without its last statement
\* (if w.len() > ef { w.pop_max(); }).
search_visit_without_pop(g, query, ef, f, s, e) ==
    IF e \in s.visited THEN [s EXCEPT !.rem = @ \ {e}]
    ELSE LET fr == peek_max(s.w)
             point == get(g, e)
             e_dist == NewDistance(distance_fn(f, point, query), e, point)
         IN  IF e_dist.distance >= fr.distance /\ Cardinality(s.w) >= ef
             THEN [s EXCEPT !.visited = @ \cup {e}, !.rem = @ \ {e}]
             ELSE [s EXCEPT !.visited = @ \cup {e},
                            !.rem = @ \ {e},
                            !.cands = @ \cup {e_dist},
                            !.w = @ \cup {e_dist}]

\* The body of the for loop pushing a record that is not nearer than the
\* farthest of w into cands only.
search_visit_cands_only(g, query, ef, f, s, e) ==
    IF e \in s.visited THEN [s EXCEPT !.rem = @ \ {e}]
    ELSE LET fr == peek_max(s.w)
             point == get(g, e)
             e_dist == NewDistance(distance_fn(f, point, query), e, point)
         IN  IF e_dist.distance >= fr.distance
             THEN [s EXCEPT !.visited = @ \cup {e}, !.rem = @ \ {e},
                            !.cands = @ \cup {e_dist}]
             ELSE LET w2 == s.w \cup {e_dist}
                  IN  [s EXCEPT !.visited = @ \cup {e},
                                !.rem = @ \ {e},
                                !.cands = @ \cup {e_dist},
                                !.w = IF Cardinality(w2) > ef
                                      THEN w2 \ {peek_max(w2)} ELSE w2]

\* The body of the for loop without visited.insert(*e).
search_visit_unmarked(g, query, ef, f, s, e) ==
    IF e \in s.visited THEN [s EXCEPT !.rem = @ \ {e}]
    ELSE LET fr == peek_max(s.w)
             point == get(g, e)
             e_dist == NewDistance(distance_fn(f, point, query), e, point)
         IN  IF e_dist.distance >= fr.distance /\ Cardinality(s.w) >= ef
             THEN [s EXCEPT !.rem = @ \ {e}]
             ELSE LET w2 == s.w \cup {e_dist}
                  IN  [s EXCEPT !.rem = @ \ {e},
                                !.cands = @ \cup {e_dist},
                                !.w = IF Cardinality(w2) > ef
                                      THEN w2 \ {peek_max(w2)} ELSE w2]

\* The body of the for loop for neighbour e.
search_visit(g, query, ef, f, s, e) ==
    IF e \in s.visited THEN [s EXCEPT !.rem = @ \ {e}]
    ELSE LET fr == peek_max(s.w)
             point == get(g, e)
             e_dist == NewDistance(distance_fn(f, point, query), e, point)
         IN  IF e_dist.distance >= fr.distance /\ Cardinality(s.w) >= ef
             THEN [s EXCEPT !.visited = @ \cup {e}, !.rem = @ \ {e}]
             ELSE LET w2 == s.w \cup {e_dist}
                  IN  [s EXCEPT !.visited = @ \cup {e},
                                !.rem = @ \ {e},
                                !.cands = @ \cup {e_dist},
                                !.w = IF Cardinality(w2) > ef
                                      THEN w2 \ {peek_max(w2)} ELSE w2]

\* The step of a search that stops as soon as the popped candidate is not
\* nearer than the farthest record of w.
search_step_stop_at_equal(g, query, ef, f, s) ==
    IF s.rem # {} THEN {search_visit(g, query, ef, f, s, e) : e \in s.rem}
    ELSE IF s.cands = {} THEN {[s EXCEPT !.done = TRUE]}
    ELSE LET c == peek_min(s.cands)
             fr == peek_max(s.w)
         IN  IF c.distance >= fr.distance THEN {[s EXCEPT !.done = TRUE]}
             ELSE {[s EXCEPT !.cands = @ \ {c}, !.rem = neighborhood(g, c.key)]}

\* One step of the search from state s: the next neighbour of the for loop,
\* in any order, or the head of the while loop.
search_step(g, query, ef, f, s) ==
    IF s.rem # {} THEN {search_visit(g, query, ef, f, s, e) : e \in s.rem}
    ELSE IF s.cands = {} THEN {[s EXCEPT !.done = TRUE]}
    ELSE LET c == peek_min(s.cands)
             fr == peek_max(s.w)
         IN  IF c.distance > fr.distance THEN {[s EXCEPT !.done = TRUE]}
             ELSE {[s EXCEPT !.cands = @ \ {c}, !.rem = neighborhood(g, c.key)]}

RECURSIVE search_run(_, _, _, _, _, _)
search_run(g, query, ef, f, frontier, finals) ==
    IF frontier = {} THEN finals
    ELSE LET next == UNION {search_step(g, query, ef, f, s) : s \in frontier}
         IN  search_run(g, query, ef, f,
                        {s \in next : ~s.done},
                        finals \cup {s.w : s \in {t \in next : t.done}})

\* search: the set of the heaps w it may return, one for each order in which
\* the adjacency sets may be enumerated.  The caller checks has(g, ep): the
\* code fails with "entry point was not in graph" otherwise.
search(g, query, ef, ep, f) ==
    search_run(g, query, ef, f, {search_init(g, query, ep, f)}, {})

\* search_select_neighbors: the neighbour lists (of keys) it may return.
search_select_neighbors(g, point, m, ef, ep, f) ==
    {Keys(select_neighbors(w, m, f)) : w \in search(g, point, ef, ep, f)}

\* The searches again for adjacency sets that are enumerated in one fixed
\* order: rank[e] is the place of identifier e in the enumeration of any set
\* that holds it.  FirstOf is the neighbour the for loop yields next.
FirstOf(rem, rank) == CHOOSE e \in rem : \A x \in rem : rank[e] <= rank[x]

RECURSIVE search_from(_, _, _, _, _, _)
search_from(g, query, ef, f, s, rank) ==
    IF s.done THEN s.w
    ELSE IF s.rem # {}
    THEN search_from(g, query, ef, f,
                     search_visit(g, query, ef, f, s, FirstOf(s.rem, rank)), rank)
    ELSE search_from(g, query, ef, f,
                     CHOOSE t \in search_step(g, query, ef, f, s) : TRUE, rank)

search_ordered(g, query, ef, ep, f, rank) ==
    search_from(g, query, ef, f, search_init(g, query, ep, f), rank)

search_select_neighbors_ordered(g, point, m, ef, ep, f, rank) ==
    Keys(select_neighbors(search_ordered(g, point, ef, ep, f, rank), m, f))

\* ------------------------------------------------------------- insertion
\* The second loop of insert_neighbors from its i-th neighbour on.  The
\* result carries, beside the graph, whether any neighbour was pruned
\* (a record of what happened, not a value of the code).
\* (variants: one prunes from m_max neighbours on, one leaves out the last
\* add_edge)
RECURSIVE prune_loop_at_limit(_, _, _, _, _, _, _)
prune_loop_at_limit(g, point_idx, neighbors, i, m_max, f, pruned) ==
    IF i > Len(neighbors) THEN [graph |-> g, pruned |-> pruned]
    ELSE LET e == neighbors[i]
             e_elem == get(g, e)
             e_conn == neighborhood(g, e)
         IN  IF Cardinality(e_conn) < m_max
             THEN prune_loop_at_limit(g, point_idx, neighbors, i + 1, m_max, f, pruned)
             ELSE LET candidates ==
                          {NewDistance(distance_fn(f, get(g, idx), e_elem), idx, get(g, idx)) :
                               idx \in e_conn}
                      keys == Keys(select_neighbors(candidates, m_max, f))
                      g1 == clear_edges(g, e)
                      g2 == add_neighbors(g1, e, keys)
                      g3 == add_edge(g2, point_idx, e)
                  IN  prune_loop_at_limit(g3, point_idx, neighbors, i + 1, m_max, f, TRUE)

RECURSIVE prune_loop_without_point(_, _, _, _, _, _, _)
prune_loop_without_point(g, point_idx, neighbors, i, m_max, f, pruned) ==
    IF i > Len(neighbors) THEN [graph |-> g, pruned |-> pruned]
    ELSE LET e == neighbors[i]
             e_elem == get(g, e)
             e_conn == neighborhood(g, e)
         IN  IF Cardinality(e_conn) <= m_max
             THEN prune_loop_without_point(g, point_idx, neighbors, i + 1, m_max, f, pruned)
             ELSE LET candidates ==
                          {NewDistance(distance_fn(f, get(g, idx), e_elem), idx, get(g, idx)) :
                               idx \in e_conn}
                      keys == Keys(select_neighbors(candidates, m_max, f))
                      g1 == clear_edges(g, e)
                      g2 == add_neighbors(g1, e, keys)
                  IN  prune_loop_without_point(g2, point_idx, neighbors, i + 1, m_max, f, TRUE)

RECURSIVE prune_loop(_, _, _, _, _, _, _)
prune_loop(g, point_idx, neighbors, i, m_max, f, pruned) ==
    IF i > Len(neighbors) THEN [graph |-> g, pruned |-> pruned]
    ELSE LET e == neighbors[i]
             e_elem == get(g, e)
             e_conn == neighborhood(g, e)
         IN  IF Cardinality(e_conn) <= m_max
             THEN prune_loop(g, point_idx, neighbors, i + 1, m_max, f, pruned)
             ELSE LET candidates ==
                          {NewDistance(distance_fn(f, get(g, idx), e_elem), idx, get(g, idx)) :
                               idx \in e_conn}
                      keys == Keys(select_neighbors(candidates, m_max, f))
                      g1 == clear_edges(g, e)
                      g2 == add_neighbors(g1, e, keys)
                      g3 == add_edge(g2, point_idx, e)
                  IN  prune_loop(g3, point_idx, neighbors, i + 1, m_max, f, TRUE)

insert_neighbors(g, point_idx, neighbors, m_max, f) ==
    prune_loop(add_neighbors(g, point_idx, neighbors), point_idx, neighbors, 1, m_max, f, FALSE)

\* neighbors.first(): the head of the neighbour list.
first_from_the_end(neighbors) == neighbors[Len(neighbors)]

first(neighbors) == neighbors[1]

\* insert_idx: the outcomes [graph, ret, pruned, failure] it may have; ret is
\* the identifier it returns, failure the message of the expect that fails.
Failed(g, msg) == [graph |-> g, ret |-> 0, pruned |-> FALSE, failure |-> msg]

insert_idx(g, point_idx, m, m_max, ef, ep, f) ==
    IF ~has(g, point_idx)
    THEN {Failed(g, "insert_idx expects point_idx to be in the graph")}
    ELSE IF ~has(g, ep) THEN {Failed(g, "entry point was not in graph")}
    ELSE {LET r == insert_neighbors(g, point_idx, neighbors, m_max, f)
          IN  IF neighbors = << >>
              THEN Failed(r.graph, "there should at least be the element we inserted")
              ELSE [graph |-> r.graph, ret |-> first(neighbors), pruned |-> r.pruned,
                    failure |-> "none"] :
          neighbors \in search_select_neighbors(g, get(g, point_idx), m, ef, ep, f)}

\* insert_point: add the point, then insert_idx of its identifier.
insert_point(g, point, m, m_max, ef, ep) ==
    insert_idx(add(g, point), size(g), m, m_max, ef, ep, "sketch")

\* ------------------------------------------------------------- state
VARIABLES
    target,     \* which object the behaviour drives: "HNSWBuilder", "NSWBuilder", ...
    options,    \* NSWOptions: ef_construction, connections, max_connections
    layers,     \* HNSWBuilder.layers (layers[l + 1] is upper layer l)
    base,       \* HNSWBuilder.base
    ep,         \* HNSWBuilder.ep: << >> is None, <<v>> is Some(v)
    nsw_graph,  \* NSWBuilder.graph
    nsw_ep,     \* NSWBuilder.ep
    call,       \* "idle", or "chunks" inside the chunk loop of extend_parallel
    pruned,     \* whether insert_neighbors has pruned a neighbour (a record)
    chunked,    \* whether a chunk of extend_parallel has been processed (a record)
    failure,    \* "none", or the message of the expect / unwrap that failed
    result,     \* the last query and what it returned
    sg,         \* a SimpleGraph driven directly through its operations
    sel,        \* a call of select_neighbors: its arguments and what it returned
    last,       \* the last operation called on sg, its arguments and what it returned
    beam,       \* a beam search on sg in progress: its arguments and its locals
    par,        \* a chunk of extend_parallel in progress: its locals and its workers
    pool,       \* the pool of visited sets of an index and the searches running on it
    set,        \* a BitSet or a GenerationSet driven directly through its operations
    ext,        \* a call of extend_parallel: its input and how far it has come
    ord         \* a call of Distance::cmp: its arguments and what it returned

vars == <<target, options, layers, base, ep, nsw_graph, nsw_ep, call, pruned, chunked,
          failure, result, sg, sel, last, beam, par, pool, set, ext, ord>>

None == << >>
Some(v) == <<v>>
unwrap(o) == o[1]

NoResult == [queried |-> FALSE]
NoSelect == [called |-> FALSE]
NoCall == [op |-> "none"]
NoBeam == [active |-> FALSE]
NoPar == [active |-> FALSE]
NoPool == [active |-> FALSE]
NoSet == [kind |-> "none"]
NoExt == [called |-> FALSE]
NoOrd == [called |-> FALSE]

\* The configurations: random_level needs connections >= 2 to be finite, and
\* max_connections is at least connections.
Options ==
    {o \in [ef_construction : 1..MaxEf, connections : 2..MaxConn,
             max_connections : 2..MaxConn] : o.connections <= o.max_connections}

\* ------------------------------------------------------------- HNSWBuilder
\* push_layers with <= for <: one layer too many.
RECURSIVE push_layers_one_more(_, _)
push_layers_one_more(ls, level) ==
    IF Len(ls) <= level THEN push_layers_one_more(Append(ls, EmptyGraph), level) ELSE ls

\* while self.layers.len() < level { self.layers.push(Default::default()) }
RECURSIVE push_layers(_, _)
push_layers(ls, level) ==
    IF Len(ls) < level THEN push_layers(Append(ls, EmptyGraph), level) ELSE ls

\* The fold over layers[..level]: the point is appended to layer l with the
\* identifier it got in the layer below; idxs[1] is base_idx and idxs[l + 2]
\* the identifier in layer l.
\* add_to_layers with every down pointer set to base_idx.
RECURSIVE add_to_layers_base_down(_, _, _, _, _)
add_to_layers_base_down(ls, level, point, idxs, l) ==
    IF l >= level THEN [layers |-> ls, idxs |-> idxs]
    ELSE add_to_layers_base_down([ls EXCEPT ![l + 1] = add(@, <<point, idxs[1]>>)],
                                 level, point, Append(idxs, size(ls[l + 1])), l + 1)

RECURSIVE add_to_layers(_, _, _, _, _)
add_to_layers(ls, level, point, idxs, l) ==
    IF l >= level THEN [layers |-> ls, idxs |-> idxs]
    ELSE add_to_layers([ls EXCEPT ![l + 1] = add(@, <<point, idxs[Len(idxs)]>>)],
                       level, point, Append(idxs, size(ls[l + 1])), l + 1)

\* for l in (level..self.layers.len()).rev(): search with ef = 1 and follow
\* the down pointer of the nearest record.  The entry points it may end at.
RECURSIVE descend(_, _, _, _, _)
descend(ls, point, level, l, e) ==
    IF l < level THEN {[ep |-> e, failure |-> "none"]}
    ELSE IF ~has(ls[l + 1], e)
    THEN {[ep |-> e, failure |-> "entry point was not in graph"]}
    ELSE UNION {descend(ls, point, level, l - 1, peek_min(w).point[2]) :
                    w \in search(ls[l + 1], point, 1, e, "layer_query")}

\* for (layer, &idx) in self.layers[..level].iter_mut().zip(idxs).rev():
\* ep = insert_idx(layer, idx, ..., ep, ...).  The outcomes from layer l down.
RECURSIVE insert_layers(_, _, _, _, _, _)
insert_layers(ls, idxs, l, e, o, pr) ==
    IF l < 0 THEN {[layers |-> ls, ep |-> e, pruned |-> pr, failure |-> "none"]}
    ELSE UNION {IF r.failure # "none"
                THEN {[layers |-> ls, ep |-> e, pruned |-> pr, failure |-> r.failure]}
                ELSE insert_layers([ls EXCEPT ![l + 1] = r.graph], idxs, l - 1, r.ret, o,
                                   pr \/ r.pruned) :
                r \in insert_idx(ls[l + 1], idxs[l + 2], o.connections, o.max_connections,
                                 o.ef_construction, e, "layer")}

\* HNSWBuilder::add with the level random_level draws: the builders
\* [layers, base, ep, pruned, failure] it may leave.
hnsw_add(ls0, b0, ep0, o, point, drawn) ==
    LET base_idx == size(b0)
        b1 == add(b0, point)
        level == IF ep0 # None THEN drawn ELSE Len(ls0)
        ep1 == IF ep0 # None THEN ep0 ELSE Some(base_idx)
        new_ep == Len(ls0) < level
        added == add_to_layers(push_layers(ls0, level), level, point, <<base_idx>>, 0)
        ls1 == added.layers
        idxs == added.idxs
        ep2 == IF new_ep THEN Some(idxs[Len(idxs)]) ELSE ep1
    IN  UNION {
          IF d.failure # "none"
          THEN {[layers |-> ls1, base |-> b1, ep |-> ep2, pruned |-> FALSE,
                 failure |-> d.failure]}
          ELSE UNION {
                 IF u.failure # "none"
                 THEN {[layers |-> u.layers, base |-> b1, ep |-> ep2, pruned |-> u.pruned,
                        failure |-> u.failure]}
                 ELSE {[layers |-> u.layers, base |-> r.graph, ep |-> ep2,
                        pruned |-> u.pruned \/ r.pruned, failure |-> r.failure] :
                       r \in insert_idx(b1, base_idx, o.connections, o.max_connections,
                                        o.ef_construction, u.ep, "sketch")} :
                 u \in insert_layers(ls1, idxs, level - 1, d.ep, o, FALSE)} :
          d \in descend(ls1, point, level, Len(ls1) - 1, unwrap(ep2))}

\* What add hands from layer to layer: for each layer it inserts into, from
\* layer l down, the identifier insert_idx returned there, which the loop
\* keeps in ep and passes to the insert_idx of the graph below, the down
\* pointer of the node of that identifier, and whether it is the new node.
RECURSIVE hand_overs(_, _, _, _, _)
hand_overs(ls, idxs, l, e, o) ==
    IF l < 0 THEN {<< >>}
    ELSE UNION {IF r.failure # "none" THEN {<< >>}
                ELSE {<<[layer |-> l, passed |-> r.ret, down |-> get(r.graph, r.ret)[2],
                         own |-> r.ret = idxs[l + 2]]>> \o rest :
                      rest \in hand_overs([ls EXCEPT ![l + 1] = r.graph], idxs, l - 1,
                                          r.ret, o)} :
                r \in insert_idx(ls[l + 1], idxs[l + 2], o.connections, o.max_connections,
                                 o.ef_construction, e, "layer")}

\* The hand-overs of HNSWBuilder::add of point with the level drawn.
add_hand_overs(ls0, b0, ep0, o, point, drawn) ==
    LET base_idx == size(b0)
        level == IF ep0 # None THEN drawn ELSE Len(ls0)
        ep1 == IF ep0 # None THEN ep0 ELSE Some(base_idx)
        new_ep == Len(ls0) < level
        added == add_to_layers(push_layers(ls0, level), level, point, <<base_idx>>, 0)
        ls1 == added.layers
        idxs == added.idxs
        ep2 == IF new_ep THEN Some(idxs[Len(idxs)]) ELSE ep1
    IN  UNION {IF d.failure # "none" THEN {<< >>}
               ELSE hand_overs(ls1, idxs, level - 1, d.ep, o) :
               d \in descend(ls1, point, level, Len(ls1) - 1, unwrap(ep2))}

\* ------------------------------------------------------------- parallel chunks
\* The parallel map of search_select_neighbors over a chunk, all searches
\* reading the same graph: the vectors of neighbour lists it may collect,
\* from the i-th point on.
RECURSIVE par_select(_, _, _, _, _, _)
par_select(g, queries, eps, o, f, i) ==
    IF i > Len(queries) THEN {<< >>}
    ELSE {<<n>> \o rest :
              n \in search_select_neighbors(g, queries[i], o.connections,
                                            o.ef_construction, eps[i], f),
              rest \in par_select(g, queries, eps, o, f, i + 1)}

\* The serial loop of insert_neighbors over the chunk, in chunk order.
RECURSIVE seq_insert(_, _, _, _, _, _, _)
seq_insert(g, pidxs, ns, m_max, f, i, pr) ==
    IF i > Len(pidxs) THEN [graph |-> g, pruned |-> pr]
    ELSE LET r == insert_neighbors(g, pidxs[i], ns[i], m_max, f)
         IN  seq_insert(r.graph, pidxs, ns, m_max, f, i + 1, pr \/ r.pruned)

\* One parallel search phase and the serial integration that follows it, on
\* one graph: the outcomes [graph, pruned, failure].
chunk_insert(g, queries, pidxs, eps, o, f) ==
    IF \E i \in 1..Len(eps) : ~has(g, eps[i])
    THEN {[graph |-> g, pruned |-> FALSE, failure |-> "entry point was not in graph"]}
    ELSE {LET r == seq_insert(g, pidxs, ns, o.max_connections, f, 1, FALSE)
          IN  [graph |-> r.graph, pruned |-> r.pruned, failure |-> "none"] :
          ns \in par_select(g, queries, eps, o, f, 1)}

\* The map that appends every point of the chunk to base and to
\* layers[..level], from the i-th point on; idxs collects each point's vector.
RECURSIVE chunk_add(_, _, _, _, _, _)
chunk_add(ls, b, level, points, i, idxs) ==
    IF i > Len(points) THEN [layers |-> ls, base |-> b, idxs |-> idxs]
    ELSE LET added == add_to_layers(ls, level, points[i], <<size(b)>>, 0)
         IN  chunk_add(added.layers, add(b, points[i]), level, points, i + 1,
                       Append(idxs, added.idxs))

\* The first parallel map: each point's descent from self.ep to layer level.
\* The vectors [eps, failure] of entry points it may collect.
RECURSIVE chunk_descend(_, _, _, _, _)
chunk_descend(ls, points, level, e, i) ==
    IF i > Len(points) THEN {[eps |-> << >>, failure |-> "none"]}
    ELSE {[eps |-> <<d.ep>> \o rest.eps,
           failure |-> IF d.failure # "none" THEN d.failure ELSE rest.failure] :
              d \in descend(ls, points[i], level, Len(ls) - 1, e),
              rest \in chunk_descend(ls, points, level, e, i + 1)}

\* for l in (0..level).rev(): search layer l for every point of the chunk
\* from the entry point its descent found, then insert them in turn.
RECURSIVE chunk_layers(_, _, _, _, _, _, _)
chunk_layers(ls, points, idxs, eps, l, o, pr) ==
    IF l < 0 THEN {[layers |-> ls, pruned |-> pr, failure |-> "none"]}
    ELSE UNION {IF r.failure # "none"
                THEN {[layers |-> ls, pruned |-> pr, failure |-> r.failure]}
                ELSE chunk_layers([ls EXCEPT ![l + 1] = r.graph], points, idxs, eps, l - 1,
                                  o, pr \/ r.pruned) :
                r \in chunk_insert(ls[l + 1],
                                   [i \in 1..Len(points) |-> <<points[i], 0>>],
                                   [i \in 1..Len(points) |-> idxs[i][l + 2]],
                                   eps, o, "layer")}

\* One iteration of the chunk loop of HNSWBuilder::extend_parallel with the
\* level random_level draws: the builders it may leave.
hnsw_chunk(ls0, b0, ep0, o, points, level) ==
    LET new_ep == Len(ls0) < level
        added == chunk_add(push_layers(ls0, level), b0, level, points, 1, << >>)
        ls1 == added.layers
        b1 == added.base
        idxs == added.idxs
        ep1 == IF new_ep THEN Some(idxs[1][Len(idxs[1])]) ELSE ep0
    IN  UNION {
          IF d.failure # "none"
          THEN {[layers |-> ls1, base |-> b1, ep |-> ep1, pruned |-> FALSE,
                 failure |-> d.failure]}
          ELSE UNION {
                 IF u.failure # "none"
                 THEN {[layers |-> u.layers, base |-> b1, ep |-> ep1, pruned |-> u.pruned,
                        failure |-> u.failure]}
                 ELSE {[layers |-> u.layers, base |-> r.graph, ep |-> ep1,
                        pruned |-> u.pruned \/ r.pruned, failure |-> r.failure] :
                       r \in chunk_insert(b1, points,
                                          [i \in 1..Len(points) |-> idxs[i][1]],
                                          d.eps, o, "sketch")} :
                 u \in chunk_layers(ls1, points, idxs, d.eps, level - 1, o, FALSE)} :
          d \in chunk_descend(ls1, points, level, unwrap(ep1), 1)}

\* What one iteration of the chunk loop hands to the base graph for each
\* point of a chunk of level 1: the entry point its descent found, which the
\* closure of the base search receives, and the down pointer of the first
\* neighbour selected for it in layer 0.
chunk_hand_overs(ls0, b0, ep0, o, points) ==
    LET new_ep == Len(ls0) < 1
        added == chunk_add(push_layers(ls0, 1), b0, 1, points, 1, << >>)
        ls1 == added.layers
        idxs == added.idxs
        ep1 == IF new_ep THEN Some(idxs[1][Len(idxs[1])]) ELSE ep0
    IN  UNION {IF d.failure # "none" \/ \E i \in 1..Len(points) : ~has(ls1[1], d.eps[i])
               THEN {}
               ELSE UNION {{[layer |-> 0, passed |-> d.eps[i],
                             down |-> get(ls1[1], ns[i][1])[2],
                             own |-> ns[i][1] = idxs[i][2]] :
                                i \in {n \in 1..Len(points) : ns[n] # << >>}} :
                           ns \in par_select(ls1[1],
                                             [i \in 1..Len(points) |-> <<points[i], 0>>],
                                             d.eps, o, "layer", 1)} :
               d \in chunk_descend(ls1, points, 1, unwrap(ep1), 1)}

\* ------------------------------------------------------------- HNSWBuilder actions
\* What a call that ends as r leaves of the builder: what it has written, also
\* when it fails (the builder is then left as it was at the failure).
HNSWLeaves(r) ==
    /\ layers' = r.layers
    /\ base' = r.base
    /\ ep' = r.ep
    /\ pruned' = (pruned \/ r.pruned)
    /\ failure' = r.failure

\* builder.add(point), also as called by extend and by the serial part of
\* extend_parallel.
HNSWAdd(point, drawn) ==
    /\ target = "HNSWBuilder" /\ failure = "none" /\ call = "idle"
    /\ size(base) < MaxNodes
    /\ ep = None => drawn = 0
    /\ \E r \in hnsw_add(layers, base, ep, options, point, drawn) : HNSWLeaves(r)
    /\ result' = NoResult
    /\ UNCHANGED <<target, pool, set, ext, ord, options, nsw_graph, nsw_ep, call, chunked, sg,
                   sel, last, beam, par>>

\* One chunk of extend_parallel.  The chunk loop is entered with exactly
\* WarmUp nodes in base; a chunk shorter than ChunkSize is the last one.
HNSWChunk(points, drawn) ==
    /\ target = "HNSWBuilder" /\ failure = "none"
    /\ call = "chunks" \/ (call = "idle" /\ size(base) = WarmUp)
    /\ size(base) + Len(points) <= MaxNodes
    /\ \E r \in hnsw_chunk(layers, base, ep, options, points, drawn) : HNSWLeaves(r)
    /\ call' = IF Len(points) < ChunkSize THEN "idle" ELSE "chunks"
    /\ chunked' = TRUE
    /\ result' = NoResult
    /\ UNCHANGED <<target, pool, set, ext, ord, options, nsw_graph, nsw_ep, sg, sel, last,
                   beam, par>>

\* The chunk loop finds the iterator exhausted and extend_parallel returns.
HNSWChunksEnd ==
    /\ target = "HNSWBuilder" /\ failure = "none" /\ call = "chunks"
    /\ call' = "idle"
    /\ UNCHANGED <<target, pool, set, ext, ord, options, layers, base, ep, nsw_graph, nsw_ep,
                   pruned, chunked, failure, result, sg, sel, last, beam, par>>

ChunksOf == UNION {[1..n -> Sketches] : n \in 1..ChunkSize}

HNSWNext ==
    \/ \E point \in Sketches, drawn \in 0..MaxLevel : HNSWAdd(point, drawn)
    \/ \E points \in ChunksOf, drawn \in 0..MaxLevel : HNSWChunk(points, drawn)
    \/ HNSWChunksEnd

\* ------------------------------------------------------------- NSWBuilder
\* NSWBuilder::add: the builders [graph, ep, pruned, failure] it may leave.
nsw_add(g, e, o, point) ==
    IF e # None
    THEN {[graph |-> r.graph, ep |-> e, pruned |-> r.pruned, failure |-> r.failure] :
              r \in insert_point(g, point, o.connections, o.max_connections,
                                 o.ef_construction, unwrap(e))}
    ELSE {[graph |-> r.graph, ep |-> Some(size(g)), pruned |-> r.pruned,
           failure |-> r.failure] :
              r \in insert_idx(add(g, point), size(g), o.connections, o.max_connections,
                               o.ef_construction, size(g), "sketch")}

\* The map that appends every point of the chunk to the graph.
RECURSIVE add_all(_, _, _)
add_all(g, points, i) ==
    IF i > Len(points) THEN g ELSE add_all(add(g, points[i]), points, i + 1)

\* One iteration of the chunk loop of NSWBuilder::extend_parallel.
nsw_chunk(g, e, o, points) ==
    {[graph |-> r.graph, ep |-> e, pruned |-> r.pruned, failure |-> r.failure] :
         r \in chunk_insert(add_all(g, points, 1), points,
                            [i \in 1..Len(points) |-> size(g) + i - 1],
                            [i \in 1..Len(points) |-> unwrap(e)], o, "sketch")}

\* What a call that ends as r leaves of the builder.
NSWLeaves(r) ==
    /\ nsw_graph' = r.graph
    /\ nsw_ep' = r.ep
    /\ pruned' = (pruned \/ r.pruned)
    /\ failure' = r.failure

NSWAdd(point) ==
    /\ target = "NSWBuilder" /\ failure = "none" /\ call = "idle"
    /\ size(nsw_graph) < MaxNodes
    /\ \E r \in nsw_add(nsw_graph, nsw_ep, options, point) : NSWLeaves(r)
    /\ result' = NoResult
    /\ UNCHANGED <<target, pool, set, ext, ord, options, layers, base, ep, call, chunked, sg,
                   sel, last, beam, par>>

NSWChunk(points) ==
    /\ target = "NSWBuilder" /\ failure = "none"
    /\ call = "chunks" \/ (call = "idle" /\ size(nsw_graph) = WarmUp)
    /\ size(nsw_graph) + Len(points) <= MaxNodes
    /\ \E r \in nsw_chunk(nsw_graph, nsw_ep, options, points) : NSWLeaves(r)
    /\ call' = IF Len(points) < ChunkSize THEN "idle" ELSE "chunks"
    /\ chunked' = TRUE
    /\ result' = NoResult
    /\ UNCHANGED <<target, pool, set, ext, ord, options, layers, base, ep, sg, sel, last, beam,
                   par>>

NSWChunksEnd ==
    /\ target = "NSWBuilder" /\ failure = "none" /\ call = "chunks"
    /\ call' = "idle"
    /\ UNCHANGED <<target, pool, set, ext, ord, options, layers, base, ep, nsw_graph, nsw_ep,
                   pruned, chunked, failure, result, sg, sel, last, beam, par>>

NSWNext ==
    \/ \E point \in Sketches : NSWAdd(point)
    \/ \E points \in ChunksOf : NSWChunk(points)
    \/ NSWChunksEnd

\* ------------------------------------------------------------- a chunk, step by step
\* One iteration of the chunk loop of extend_parallel as the steps it is made
\* of.  A phase is one into_par_iter().map(..).collect() on one graph and the
\* serial for loop over what it collected.  par holds the chunk's locals
\* (points, idxs, eps, level), the phase (where, l), its stage, each worker's
\* status and result, the order in which the workers finished, the place
\* of the serial loop (next), the identifiers it has inserted, the graphs as
\* they were when the phase forked, and rank, the order in which the
\* adjacency sets are enumerated during this chunk.
Phase(where, l, level, points, idxs, eps, rank, ls, b, g) ==
    [active |-> TRUE, where |-> where, l |-> l, level |-> level, stage |-> "search",
     points |-> points, idxs |-> idxs, eps |-> eps, rank |-> rank,
     fork |-> [layers |-> ls, base |-> b, nsw_graph |-> g],
     status |-> [i \in 1..Len(points) |-> "pending"],
     out |-> [i \in 1..Len(points) |-> << >>],
     finished |-> << >>, next |-> 1, inserted |-> << >>]

Orders ==
    {[k \in 0..(MaxNodes - 1) |-> k], [k \in 0..(MaxNodes - 1) |-> MaxNodes - 1 - k]}

\* The graph a phase works on, among the graphs ls, b, g.
PhaseGraphOf(ph, ls, b, g) ==
    CASE ph.where = "nsw" -> g
      [] ph.where = "base" -> b
      [] ph.where = "layer" -> ls[ph.l + 1]
      [] ph.where = "descent" -> b

\* The identifier of the chunk's i-th point in the graph of the phase.
PhaseIdx(ph, i) == IF ph.where = "layer" THEN ph.idxs[i][ph.l + 2] ELSE ph.idxs[i][1]

PhaseDistance(ph) == IF ph.where = "layer" THEN "layer" ELSE "sketch"

\* The descent of one worker: for l in (level..layers.len()).rev().
RECURSIVE descend_ordered(_, _, _, _, _, _)
descend_ordered(ls, point, level, l, e, rank) ==
    IF l < level THEN [out |-> e, failure |-> "none"]
    ELSE IF ~has(ls[l + 1], e)
    THEN [out |-> e, failure |-> "entry point was not in graph"]
    ELSE descend_ordered(ls, point, level, l - 1,
                         peek_min(search_ordered(ls[l + 1], point, 1, e, "layer_query",
                                                 rank)).point[2],
                         rank)

\* The closure worker i runs, on the graphs as they are when it reads them:
\* what it returns and whether it fails.
TaskOn(ph, o, ls, b, g, i) ==
    IF ph.where = "descent"
    THEN descend_ordered(ls, ph.points[i], ph.level, Len(ls) - 1, ph.eps[i], ph.rank)
    ELSE IF ~has(PhaseGraphOf(ph, ls, b, g), ph.eps[i])
    THEN [out |-> << >>, failure |-> "entry point was not in graph"]
    ELSE [out |-> search_select_neighbors_ordered(
                      PhaseGraphOf(ph, ls, b, g),
                      IF ph.where = "layer" THEN <<ph.points[i], 0>> ELSE ph.points[i],
                      o.connections, o.ef_construction, ph.eps[i], PhaseDistance(ph),
                      ph.rank),
          failure |-> "none"]

\* collect() returning as soon as one worker has returned.
joined_by_first(status) == \E i \in DOMAIN status : status[i] = "done"

\* collect() returns once every worker has returned.
joined(status) == \A i \in DOMAIN status : status[i] = "done"

\* collect() handing the results over in the order the workers finished.
collect_in_completion_order(finished, n) ==
    [i \in 1..n |-> IF i <= Len(finished) THEN finished[i] ELSE i]

\* collect() of an indexed parallel iterator: the results in the order of the
\* items, whatever the order in which the workers finished.
collect_order(finished, n) == [i \in 1..n |-> i]

\* The chunk loop of NSWBuilder::extend_parallel takes a chunk, adds its
\* points to the graph and forks the searches.
NSWFork(points, rank) ==
    /\ target = "NSWBuilder" /\ failure = "none"
    /\ call = "chunks" \/ (call = "idle" /\ size(nsw_graph) = WarmUp)
    /\ size(nsw_graph) + Len(points) <= MaxNodes
    /\ nsw_graph' = add_all(nsw_graph, points, 1)
    /\ par' = Phase("nsw", 0, 0, points,
                    [i \in 1..Len(points) |-> <<size(nsw_graph) + i - 1>>],
                    [i \in 1..Len(points) |-> unwrap(nsw_ep)],
                    rank, layers, base, nsw_graph')
    /\ call' = "chunk"
    /\ chunked' = TRUE
    /\ result' = NoResult
    /\ UNCHANGED <<target, pool, set, ext, ord, options, layers, base, ep, nsw_ep, pruned,
                   failure, sg, sel, last, beam>>

\* The chunk loop of HNSWBuilder::extend_parallel takes a chunk, draws its
\* level, pushes layers, adds the points to base and layers[..level], sets
\* the entry point and forks the descents.
HNSWFork(points, drawn, rank) ==
    /\ target = "HNSWBuilder" /\ failure = "none"
    /\ call = "chunks" \/ (call = "idle" /\ size(base) = WarmUp)
    /\ size(base) + Len(points) <= MaxNodes
    /\ LET added == chunk_add(push_layers(layers, drawn), base, drawn, points, 1, << >>)
           ep1 == IF Len(layers) < drawn
                  THEN Some(added.idxs[1][Len(added.idxs[1])]) ELSE ep
       IN  /\ layers' = added.layers
           /\ base' = added.base
           /\ ep' = ep1
           /\ par' = Phase("descent", 0, drawn, points, added.idxs,
                           [i \in 1..Len(points) |-> unwrap(ep1)],
                           rank, added.layers, added.base, nsw_graph)
    /\ call' = "chunk"
    /\ chunked' = TRUE
    /\ result' = NoResult
    /\ UNCHANGED <<target, pool, set, ext, ord, options, nsw_graph, nsw_ep, pruned, failure,
                   sg, sel, last, beam>>

\* A worker thread takes the i-th item of the parallel iterator.
WorkerStart(i) ==
    /\ par.active /\ par.stage = "search" /\ failure = "none"
    /\ i \in DOMAIN par.status /\ par.status[i] = "pending"
    /\ par' = [par EXCEPT !.status[i] = "running"]
    /\ UNCHANGED <<target, pool, set, ext, ord, options, layers, base, ep, nsw_graph, nsw_ep,
                   call, pruned, chunked, failure, result, sg, sel, last, beam>>

\* The worker returns from its closure (or panics in it).
WorkerFinish(i) ==
    /\ par.active /\ par.stage = "search" /\ failure = "none"
    /\ i \in DOMAIN par.status /\ par.status[i] = "running"
    /\ LET r == TaskOn(par, options, layers, base, nsw_graph, i)
       IN  /\ par' = [par EXCEPT !.status[i] = "done", !.out[i] = r.out,
                                 !.finished = Append(@, i)]
           /\ failure' = r.failure
    /\ UNCHANGED <<target, pool, set, ext, ord, options, layers, base, ep, nsw_graph, nsw_ep,
                   call, pruned, chunked, result, sg, sel, last, beam>>

\* collect() returns: the serial loop over the results may begin.  The
\* descents have nothing to insert; their results are the entry points.
Join ==
    /\ par.active /\ par.stage = "search" /\ failure = "none"
    /\ joined(par.status)
    /\ par' = IF par.where = "descent"
              THEN [par EXCEPT !.stage = "integrated", !.eps = par.out]
              ELSE [par EXCEPT !.stage = "insert"]
    /\ UNCHANGED <<target, pool, set, ext, ord, options, layers, base, ep, nsw_graph, nsw_ep,
                   call, pruned, chunked, failure, result, sg, sel, last, beam>>

\* One iteration of the serial for loop: insert_neighbors of the next result.
InsertNext ==
    /\ par.active /\ par.stage = "insert" /\ failure = "none"
    /\ LET n == Len(par.points)
           k == collect_order(par.finished, n)[par.next]
           r == insert_neighbors(PhaseGraphOf(par, layers, base, nsw_graph),
                                 PhaseIdx(par, k), par.out[k], options.max_connections,
                                 PhaseDistance(par))
       IN  /\ layers' = IF par.where = "layer"
                        THEN [layers EXCEPT ![par.l + 1] = r.graph] ELSE layers
           /\ base' = IF par.where = "base" THEN r.graph ELSE base
           /\ nsw_graph' = IF par.where = "nsw" THEN r.graph ELSE nsw_graph
           /\ pruned' = (pruned \/ r.pruned)
           /\ par' = [par EXCEPT !.next = @ + 1,
                                 !.inserted = Append(@, PhaseIdx(par, k)),
                                 !.stage = IF par.next = n THEN "integrated" ELSE "insert"]
    /\ UNCHANGED <<target, pool, set, ext, ord, options, ep, nsw_ep, call, chunked, failure,
                   result, sg, sel, last, beam>>

\* After a phase: the next layer down forks, then the base layer, and after
\* the base layer (or the graph of an NSWBuilder) the iteration is over.
NextPhase ==
    /\ par.active /\ par.stage = "integrated" /\ failure = "none"
    /\ LET down == IF par.where = "descent" THEN par.level - 1 ELSE par.l - 1
       IN  IF par.where \in {"base", "nsw"}
           THEN /\ par' = [par EXCEPT !.stage = "done"]
                /\ call' = IF Len(par.points) < ChunkSize THEN "idle" ELSE "chunks"
           ELSE /\ par' = Phase(IF down >= 0 THEN "layer" ELSE "base",
                                IF down >= 0 THEN down ELSE 0,
                                par.level, par.points, par.idxs, par.eps, par.rank,
                                layers, base, nsw_graph)
                /\ UNCHANGED call
    /\ UNCHANGED <<target, pool, set, ext, ord, options, layers, base, ep, nsw_graph, nsw_ep,
                   pruned, chunked, failure, result, sg, sel, last, beam>>

\* A build by extend_parallel: serial adds up to WarmUp nodes, then chunks.
ParallelNext ==
    \/ \E point \in Sketches, drawn \in 0..MaxLevel :
           size(base) < WarmUp /\ HNSWAdd(point, drawn)
    \/ \E point \in Sketches : size(nsw_graph) < WarmUp /\ NSWAdd(point)
    \/ \E points \in ChunksOf, rank \in Orders : NSWFork(points, rank)
    \/ \E points \in ChunksOf, drawn \in 0..MaxLevel, rank \in Orders :
           HNSWFork(points, drawn, rank)
    \/ \E i \in 1..ChunkSize : WorkerStart(i)
    \/ \E i \in 1..ChunkSize : WorkerFinish(i)
    \/ Join
    \/ InsertNext
    \/ NextPhase

\* ------------------------------------------------------------- extend_parallel
RECURSIVE pow2(_)
pow2(k) == IF k = 0 THEN 1 ELSE 2 * pow2(k - 1)

\* a - b on usize: with overflow checks (debug builds) an underflow panics,
\* without them (release builds) the difference wraps around.
usize_sub(a, b, build) ==
    IF a >= b THEN [val |-> a - b, failure |-> "none"]
    ELSE IF build = "debug" THEN [val |-> 0, failure |-> "attempt to subtract with overflow"]
    ELSE [val |-> (a - b) + pow2(UsizeBits), failure |-> "none"]

usize_max(a, b) == IF a >= b THEN a ELSE b

\* 0.max(50_000 - self.base.size()), with WarmUp for 50_000.
warm_up_take(n, build) ==
    LET d == usize_sub(WarmUp, n, build)
    IN  [val |-> usize_max(0, d.val), failure |-> d.failure]

BuilderSize == IF target = "HNSWBuilder" THEN size(base) ELSE size(nsw_graph)
BuilderEp == IF target = "HNSWBuilder" THEN ep ELSE nsw_ep

ExtPoints == SUBSET (1..ExtBits)
ExtInputs == UNION {[1..n -> ExtPoints] : n \in 0..MaxNodes}
Streams == UNION {[1..n -> 0..MaxLevel] : n \in 0..MaxNodes}

ExtFrame == UNCHANGED <<target, pool, set, ord, options, result, sg, sel, last, beam, par>>

\* self.add(point) for the next point of the iterator: random_level, when it
\* is called, returns the next value of the stream.
ExtAdd ==
    LET point == Head(ext.rest)
        draws == BuilderEp # None /\ target = "HNSWBuilder"
        drawn == IF draws THEN Head(ext.stream) ELSE 0
    IN  /\ IF target = "HNSWBuilder"
           THEN /\ \E r \in hnsw_add(layers, base, ep, options, point, drawn) : HNSWLeaves(r)
                /\ UNCHANGED <<nsw_graph, nsw_ep>>
           ELSE /\ \E r \in nsw_add(nsw_graph, nsw_ep, options, point) : NSWLeaves(r)
                /\ UNCHANGED <<layers, base, ep>>
        /\ ext' = [ext EXCEPT !.rest = Tail(@),
                              !.stream = IF draws THEN Tail(@) ELSE @,
                              !.given = Append(@, IF draws THEN drawn ELSE Len(layers)),
                              !.seeded = @ + 1,
                              !.take = IF ext.stage = "seed" THEN @ - 1 ELSE @,
                              !.stage = IF ext.stage = "first" THEN "take" ELSE @]

\* builder.extend_parallel(points) is called; stream holds the values the
\* next calls of random_level return.
ExtCall(points, stream, build) ==
    /\ target \in {"HNSWBuilder", "NSWBuilder"} /\ failure = "none"
    /\ call = "idle" /\ ~ext.called
    /\ BuilderSize + Len(points) <= MaxNodes
    /\ Len(stream) = IF target = "HNSWBuilder" THEN Len(points) ELSE 0
    /\ ext' = [called |-> TRUE, build |-> build, input |-> points, rest |-> points,
               stream |-> stream, stream0 |-> stream, size0 |-> BuilderSize,
               first_free |-> (BuilderEp = None /\ points # << >>),
               stage |-> IF BuilderEp = None /\ points # << >> THEN "first" ELSE "take",
               take |-> 0, seeded |-> 0, chunks |-> 0, given |-> << >>]
    /\ call' = "extend_parallel"
    /\ UNCHANGED <<layers, base, ep, nsw_graph, nsw_ep, pruned, chunked, failure>>
    /\ ExtFrame

\* if self.ep.is_none() { if let Some(point) = iter.next() { self.add(point); } }
ExtFirst ==
    /\ ext.called /\ ext.stage = "first" /\ failure = "none"
    /\ ExtAdd
    /\ UNCHANGED <<call, chunked>>
    /\ ExtFrame

\* The argument of take is computed.
ExtTake ==
    /\ ext.called /\ ext.stage = "take" /\ failure = "none"
    /\ LET n == warm_up_take(BuilderSize, ext.build)
       IN  /\ ext' = [ext EXCEPT !.take = n.val, !.stage = "seed"]
           /\ failure' = n.failure
    /\ UNCHANGED <<layers, base, ep, nsw_graph, nsw_ep, call, pruned, chunked>>
    /\ ExtFrame

\* self.extend(iter.by_ref().take(..)): one add.
ExtSeed ==
    /\ ext.called /\ ext.stage = "seed" /\ failure = "none"
    /\ ext.take > 0 /\ ext.rest # << >>
    /\ ExtAdd
    /\ UNCHANGED <<call, chunked>>
    /\ ExtFrame

\* One iteration of the chunk loop on the next chunk_size points: one call
\* of random_level for the chunk.
ExtChunk ==
    /\ ext.called /\ ext.stage \in {"seed", "chunks"} /\ failure = "none"
    /\ ext.stage = "seed" => ext.take = 0 \/ ext.rest = << >>
    /\ ext.rest # << >>
    /\ LET n == IF Len(ext.rest) < ChunkSize THEN Len(ext.rest) ELSE ChunkSize
           points == SubSeq(ext.rest, 1, n)
           drawn == IF target = "HNSWBuilder" THEN Head(ext.stream) ELSE 0
       IN  /\ IF target = "HNSWBuilder"
              THEN /\ \E r \in hnsw_chunk(layers, base, ep, options, points, drawn) :
                          HNSWLeaves(r)
                   /\ UNCHANGED <<nsw_graph, nsw_ep>>
              ELSE /\ \E r \in nsw_chunk(nsw_graph, nsw_ep, options, points) : NSWLeaves(r)
                   /\ UNCHANGED <<layers, base, ep>>
           /\ ext' = [ext EXCEPT !.rest = SubSeq(@, n + 1, Len(@)),
                                 !.stream = IF target = "HNSWBuilder" THEN Tail(@) ELSE @,
                                 !.given = @ \o [i \in 1..n |-> drawn],
                                 !.chunks = @ + 1,
                                 !.stage = "chunks"]
    /\ chunked' = TRUE
    /\ UNCHANGED call
    /\ ExtFrame

\* The chunk is empty: extend_parallel returns.
ExtReturn ==
    /\ ext.called /\ ext.stage \in {"seed", "chunks"} /\ failure = "none"
    /\ ext.rest = << >>
    /\ ext' = [ext EXCEPT !.stage = "returned"]
    /\ call' = "idle"
    /\ UNCHANGED <<layers, base, ep, nsw_graph, nsw_ep, pruned, chunked, failure>>
    /\ ExtFrame

\* A builder of any size, then one call of extend_parallel.
ExtNext ==
    \/ \E point \in ExtPoints, drawn \in 0..MaxLevel : ~ext.called /\ HNSWAdd(point, drawn)
    \/ \E point \in ExtPoints : ~ext.called /\ NSWAdd(point)
    \/ /\ ~ext.called /\ call = "idle" /\ failure = "none"
       /\ \E points \in {p \in ExtInputs : BuilderSize + Len(p) <= MaxNodes} :
              \E stream \in {t \in Streams : Len(t) = IF target = "HNSWBuilder"
                                                       THEN Len(points) ELSE 0},
                 build \in {"debug", "release"} : ExtCall(points, stream, build)
    \/ ExtFirst
    \/ ExtTake
    \/ ExtSeed
    \/ ExtChunk
    \/ ExtReturn

\* ------------------------------------------------------------- SimpleGraph actions
GraphFrame ==
    UNCHANGED <<target, pool, set, ext, ord, options, layers, base, ep, nsw_graph, nsw_ep,
                call, pruned, chunked, failure, result, sel, beam, par>>

SGAdd(t) ==
    /\ target = "SimpleGraph" /\ size(sg) < GraphNodes
    /\ sg' = add(sg, t)
    /\ GraphFrame

SGAddEdge(v, w) ==
    /\ target = "SimpleGraph"
    /\ sg' = add_edge(sg, v, w)
    /\ GraphFrame

SGRemoveEdge(v, w) ==
    /\ target = "SimpleGraph"
    /\ sg' = remove_edge(sg, v, w)
    /\ GraphFrame

SGClearEdges(v) ==
    /\ target = "SimpleGraph"
    /\ sg' = clear_edges(sg, v)
    /\ GraphFrame

SGAddNeighbors(v, ws) ==
    /\ target = "SimpleGraph"
    /\ sg' = add_neighbors(sg, v, ws)
    /\ GraphFrame

\* The identifiers handed to the edge operations: those of the largest graph
\* and one past them, so that they may be out of bounds.
Idxs == 0..GraphNodes
IdxLists == UNION {[1..n -> Idxs] : n \in 0..MaxList}

GraphNext ==
    \/ \E t \in Sketches : SGAdd(t) /\ UNCHANGED last
    \/ \E v \in Idxs, w \in Idxs : SGAddEdge(v, w) /\ UNCHANGED last
    \/ \E v \in Idxs, w \in Idxs : SGRemoveEdge(v, w) /\ UNCHANGED last
    \/ \E v \in Idxs : SGClearEdges(v) /\ UNCHANGED last
    \/ \E v \in Idxs, ws \in IdxLists : SGAddNeighbors(v, ws) /\ UNCHANGED last

\* graph.neighborhood(v): it only reads.
SGNeighborhood(v) ==
    /\ target = "SimpleGraph"
    /\ UNCHANGED sg
    /\ GraphFrame

GraphPoints == SUBSET (1..GraphBits)

\* The same operations, each call observed: last holds the operation, its
\* arguments and the value it returned to the caller (for clear_edges, the
\* neighbors it collected before removing them).
GraphCalls ==
    \/ \E t \in GraphPoints :
           SGAdd(t) /\ last' = [op |-> "add", t |-> t, ret |-> size(sg)]
    \/ \E v \in Idxs, w \in Idxs :
           SGAddEdge(v, w) /\ last' = [op |-> "add_edge", v |-> v, w |-> w]
    \/ \E v \in Idxs, w \in Idxs :
           SGRemoveEdge(v, w) /\ last' = [op |-> "remove_edge", v |-> v, w |-> w]
    \/ \E v \in Idxs :
           SGClearEdges(v) /\ last' = [op |-> "clear_edges", v |-> v,
                                       neighbors |-> neighborhood(sg, v)]
    \/ \E v \in Idxs, ws \in IdxLists :
           SGAddNeighbors(v, ws) /\ last' = [op |-> "add_neighbors", v |-> v, ws |-> ws]
    \/ \E v \in Idxs :
           SGNeighborhood(v) /\ last' = [op |-> "neighborhood", v |-> v,
                                         ret |-> neighborhood(sg, v)]

\* ------------------------------------------------------------- builders of any options
\* NSWOptions holds three usize fields that new copies as they are.
AnyOptions == [ef_construction : 0..MaxEf, connections : 0..MaxConn,
               max_connections : 0..MaxConn]

\* random_level: (-ln(val) * (1 / ln(connections))) as usize for val in [0, 1).
\* From 2 connections on any level may come out (here up to MaxLevel).  With
\* 1 connection ln is 0, the product is infinite and the cast saturates: no
\* level within reach.  With 0 connections the factor is -0 and the cast of
\* -0 or NaN gives 0.
random_level(o) ==
    IF o.connections >= 2 THEN 0..MaxLevel
    ELSE IF o.connections = 1 THEN {}
    ELSE {0}

\* add when random_level returns usize::MAX: the point is in base and the
\* while loop pushes layers (here MaxLevel of them) until the allocation fails.
HNSWAddUnboundedLevel(point) ==
    /\ target = "HNSWBuilder" /\ failure = "none" /\ call = "idle"
    /\ ep # None /\ options.connections = 1
    /\ base' = add(base, point)
    /\ layers' = push_layers(layers, MaxLevel)
    /\ failure' = "memory allocation failed"
    /\ result' = NoResult
    /\ UNCHANGED <<target, pool, set, ext, ord, options, ep, nsw_graph, nsw_ep, call, pruned,
                   chunked, sg, sel, last, beam, par>>

ConfigNext ==
    \/ \E point \in Sketches :
           \E drawn \in IF ep = None THEN {0} ELSE random_level(options) :
               size(base) < ConfigNodes /\ HNSWAdd(point, drawn)
    \/ \E point \in Sketches : size(base) < ConfigNodes /\ HNSWAddUnboundedLevel(point)
    \/ \E point \in Sketches : size(nsw_graph) < ConfigNodes /\ NSWAdd(point)

\* ------------------------------------------------------------- a search, step by step
SearchFrame ==
    UNCHANGED <<target, pool, set, ext, ord, options, layers, base, ep, nsw_graph, nsw_ep,
                call, pruned, chunked, result, sg, sel, last, par>>

\* beam.computed[v] counts (up to 2) the times the search has marked node v
\* visited and computed its distance to the query: the for loop does both
\* for the neighbour it takes from rem when that neighbour is not in visited.
computed_after(s, s2, computed) ==
    [v \in DOMAIN computed |->
        IF v \in (s.rem \ s2.rem) /\ v \notin s.visited /\ computed[v] < 2
        THEN computed[v] + 1 ELSE computed[v]]

\* search(&sg, query, ef, e, Point::distance, pool) up to the head of its
\* while loop, or its failure when e is not in the graph.
SearchStart(query, ef, e) ==
    /\ target = "SimpleGraph" /\ ~beam.active /\ failure = "none"
    /\ IF has(sg, e)
       THEN /\ beam' = [active |-> TRUE, query |-> query, ef |-> ef, ep |-> e,
                        s |-> search_init(sg, query, e, "sketch"),
                        computed |-> [v \in 0..(size(sg) - 1) |-> IF v = e THEN 1 ELSE 0]]
            /\ UNCHANGED failure
       ELSE /\ failure' = "entry point was not in graph"
            /\ UNCHANGED beam
    /\ SearchFrame

\* The search goes on by the head of the while loop or by one neighbour of
\* the for loop, in whichever order the adjacency set yields them.
SearchStep ==
    /\ beam.active /\ ~beam.s.done
    /\ \E s2 \in search_step(sg, beam.query, beam.ef, "sketch", beam.s) :
           beam' = [beam EXCEPT !.s = s2,
                                !.computed = computed_after(beam.s, s2, beam.computed)]
    /\ UNCHANGED failure
    /\ SearchFrame

\* A graph is put together through add and add_edge, then searched.
SearchNext ==
    \/ \E t \in GraphPoints :
           ~beam.active /\ failure = "none" /\ SGAdd(t) /\ UNCHANGED last
    \/ \E v \in Idxs, w \in Idxs :
           ~beam.active /\ failure = "none" /\ SGAddEdge(v, w) /\ UNCHANGED last
    \/ \E query \in Sketches, ef \in 0..SearchEf, e \in Idxs : SearchStart(query, ef, e)
    \/ SearchStep

\* ------------------------------------------------------------- queries
\* HNSW::search without the let-else on self.ep: it goes on from node 0.
hnsw_search_without_ep_check(ls, b, e0, query, k, ef) ==
    LET e == IF e0 = None THEN 0 ELSE unwrap(e0)
    IN  UNION {IF d.failure # "none" THEN {[out |-> << >>, failure |-> d.failure]}
               ELSE IF ~has(b, d.ep)
               THEN {[out |-> << >>, failure |-> "entry point was not in graph"]}
               ELSE {[out |-> take(drain_asc(w), k), failure |-> "none"] :
                         w \in search(b, query, ef, d.ep, "sketch")} :
               d \in descend(ls, query, 0, Len(ls) - 1, e)}

\* HNSW::search: the vectors [out, failure] it may return.
hnsw_search(ls, b, e0, query, k, ef) ==
    IF e0 = None THEN {[out |-> << >>, failure |-> "none"]}
    ELSE UNION {IF d.failure # "none" THEN {[out |-> << >>, failure |-> d.failure]}
                ELSE IF ~has(b, d.ep)
                THEN {[out |-> << >>, failure |-> "entry point was not in graph"]}
                ELSE {[out |-> take(drain_asc(w), k), failure |-> "none"] :
                          w \in search(b, query, ef, d.ep, "sketch")} :
                d \in descend(ls, query, 0, Len(ls) - 1, unwrap(e0))}

\* NSW::search: the vectors [out, failure] it may return.
nsw_search(g, e0, query, k, ef) ==
    IF e0 = None THEN {[out |-> << >>, failure |-> "none"]}
    ELSE IF ~has(g, unwrap(e0))
    THEN {[out |-> << >>, failure |-> "entry point was not in graph"]}
    ELSE {[out |-> take(drain_asc(w), k), failure |-> "none"] :
              w \in search(g, query, ef, unwrap(e0), "sketch")}

QueryFrame ==
    UNCHANGED <<target, pool, set, ext, ord, options, layers, base, ep, nsw_graph, nsw_ep,
                pruned, chunked, sg, sel, last, beam, par>>

\* builder.build().search(query, k, ef).  build consumes the builder and a
\* search leaves the index as it is, so a behaviour ends with its query.
HNSWSearch(query, k, ef) ==
    /\ target = "HNSWBuilder" /\ failure = "none" /\ call = "idle"
    /\ \E r \in hnsw_search(layers, base, ep, query, k, ef) :
           /\ result' = [queried |-> TRUE, query |-> query, k |-> k, ef |-> ef, out |-> r.out]
           /\ failure' = r.failure
    /\ call' = "built"
    /\ QueryFrame

NSWSearch(query, k, ef) ==
    /\ target = "NSWBuilder" /\ failure = "none" /\ call = "idle"
    /\ \E r \in nsw_search(nsw_graph, nsw_ep, query, k, ef) :
           /\ result' = [queried |-> TRUE, query |-> query, k |-> k, ef |-> ef, out |-> r.out]
           /\ failure' = r.failure
    /\ call' = "built"
    /\ QueryFrame

\* The builders up to QueryNodes points, and one query of each index built.
QueryNext ==
    \/ \E point \in Sketches, drawn \in 0..MaxLevel :
           size(base) < QueryNodes /\ HNSWAdd(point, drawn)
    \/ \E points \in ChunksOf, drawn \in 0..MaxLevel :
           size(base) + Len(points) <= QueryNodes /\ HNSWChunk(points, drawn)
    \/ \E point \in Sketches : size(nsw_graph) < QueryNodes /\ NSWAdd(point)
    \/ \E points \in ChunksOf :
           size(nsw_graph) + Len(points) <= QueryNodes /\ NSWChunk(points)
    \/ \E query \in Sketches, k \in 0..MaxK, ef \in 0..MaxK : HNSWSearch(query, k, ef)
    \/ \E query \in Sketches, k \in 0..MaxK, ef \in 0..MaxK : NSWSearch(query, k, ef)


\* ------------------------------------------------------------- select_neighbors calls
\* A heap of candidates for the query q: the integer point c[k] under key k,
\* for the keys k that c does not leave out (-1), each record carrying its
\* distance to q as search and the test build them.
HeapOf(c, q) ==
    {NewDistance(IntDistance(c[k], q), k, c[k]) : k \in {j \in DOMAIN c : c[j] # -1}}

Candidates == [0..(MaxCand - 1) -> (0..MaxInt) \cup {-1}]

SelectFrame ==
    UNCHANGED <<target, pool, set, ext, ord, options, layers, base, ep, nsw_graph, nsw_ep,
                call, pruned, chunked, failure, result, sg, last, beam, par>>

\* select_neighbors(candidates, m, Point::distance) on integer points.
SelectNeighbors(c, q, m) ==
    /\ target = "select_neighbors" /\ ~sel.called
    /\ sel' = [called |-> TRUE, candidates |-> HeapOf(c, q), query |-> q, m |-> m,
               out |-> select_neighbors(HeapOf(c, q), m, "int")]
    /\ SelectFrame

\* tests::test_heuristic: every record is built with key 0.
test_heuristic ==
    LET q == 10
        heap == {NewDistance(IntDistance(x, q), 0, x) : x \in {1, 5, 6, 7, 16, 18}}
    IN  /\ target = "select_neighbors" /\ ~sel.called
        /\ sel' = [called |-> TRUE, candidates |-> heap, query |-> q, m |-> 3,
                   out |-> select_neighbors(heap, 3, "int")]
        /\ SelectFrame

SelectNext ==
    \/ \E c \in Candidates, q \in 0..MaxInt, m \in 0..MaxM : SelectNeighbors(c, q, m)
    \/ test_heuristic

\* ------------------------------------------------------------- visited pool and knns
\* The set left as it was pulled.
visited_keep(v) == v

\* HashSet::clear on a set holding v.
visited_clear(v) == {}

\* Pool::new(cap, || HashSet::with_capacity(2000)): cap empty sets, named
\* 1..cap; free is the stack of the sets in the pool.
pool_new(cap) == [free |-> [i \in 1..cap |-> i], content |-> [i \in 1..cap |-> {}]]

\* The set dropped without going back to the pool.
pool_attach_lost(free, id) == free

\* Drop of the pulled set: it is pushed back on the stack of the pool.
pool_attach(free, id) == Append(free, id)

\* The next state of a search whose adjacency sets are enumerated by rank.
search_next(g, query, ef, f, s, rank) ==
    IF s.rem # {} THEN search_visit(g, query, ef, f, s, FirstOf(s.rem, rank))
    ELSE CHOOSE t \in search_step(g, query, ef, f, s) : TRUE

NoTask == [stage |-> "pending", held |-> 0, s |-> << >>, marks |-> {}]

Holding(i) == pool.task[i].stage = "running"

PoolFrame ==
    UNCHANGED <<target, set, ext, ord, options, layers, base, ep, nsw_graph, nsw_ep,
                pruned, chunked, result, sg, sel, last, beam, par>>

\* NSW::from(builder.build()) on a rayon pool of cap threads.
NSWFrom(cap) ==
    /\ target = "NSWBuilder" /\ failure = "none" /\ call = "idle" /\ ~pool.active
    /\ pool' = [active |-> TRUE, called |-> FALSE, cap |-> cap,
                free |-> pool_new(cap).free, content |-> pool_new(cap).content]
    /\ call' = "built"
    /\ UNCHANGED failure
    /\ PoolFrame

\* index.knns(queries, k, ef) on a rayon pool of threads threads.
Knns(queries, k, ef, threads, rank) ==
    /\ pool.active /\ ~pool.called /\ failure = "none"
    /\ pool' = [active |-> TRUE, called |-> TRUE, cap |-> pool.cap,
                free |-> pool.free, content |-> pool.content,
                queries |-> queries, k |-> k, ef |-> ef, threads |-> threads, rank |-> rank,
                task |-> [i \in 1..Len(queries) |-> NoTask],
                out |-> [i \in 1..Len(queries) |-> << >>],
                starved |-> FALSE, reused |-> {}, returned |-> FALSE]
    /\ UNCHANGED <<call, failure>>
    /\ PoolFrame

\* A thread takes query i: self.search(q, k, ef) up to the head of the while
\* loop of search.  Without an entry point it returns the empty vector.
TaskStart(i) ==
    /\ pool.active /\ pool.called /\ failure = "none"
    /\ i \in 1..Len(pool.queries) /\ pool.task[i].stage = "pending"
    /\ Cardinality({j \in 1..Len(pool.queries) : Holding(j)}) < pool.threads
    /\ IF nsw_ep = None
       THEN /\ pool' = [pool EXCEPT !.task[i].stage = "done"]
            /\ UNCHANGED failure
       ELSE IF ~has(nsw_graph, unwrap(nsw_ep))
       THEN /\ failure' = "entry point was not in graph"
            /\ UNCHANGED pool
       ELSE IF pool.free = << >>
       THEN /\ failure' = "called Option::unwrap() on a None value"
            /\ pool' = [pool EXCEPT !.starved = TRUE]
       ELSE LET id == pool.free[Len(pool.free)]
                e == unwrap(nsw_ep)
                visited == visited_clear(pool.content[id]) \cup {e}
                s0 == search_init(nsw_graph, pool.queries[i], e, "sketch")
            IN  /\ pool' = [pool EXCEPT
                                !.free = SubSeq(@, 1, Len(@) - 1),
                                !.content[id] = visited,
                                !.reused = IF pool.content[id] # {} THEN @ \cup {i} ELSE @,
                                !.task[i] = [stage |-> "running", held |-> id,
                                             s |-> [s0 EXCEPT !.visited = {}],
                                             marks |-> {e}]]
                /\ UNCHANGED failure
    /\ UNCHANGED call
    /\ PoolFrame

\* One step of the search of query i on the set it holds.
TaskStep(i) ==
    /\ pool.active /\ pool.called /\ failure = "none"
    /\ i \in 1..Len(pool.queries) /\ Holding(i) /\ ~pool.task[i].s.done
    /\ LET t == pool.task[i]
           s1 == [t.s EXCEPT !.visited = pool.content[t.held]]
           s2 == search_next(nsw_graph, pool.queries[i], pool.ef, "sketch", s1, pool.rank)
       IN  pool' = [pool EXCEPT !.content[t.held] = s2.visited,
                                !.task[i].s = [s2 EXCEPT !.visited = {}],
                                !.task[i].marks = @ \cup (s2.visited \ s1.visited)]
    /\ UNCHANGED <<call, failure>>
    /\ PoolFrame

\* search returns: the set goes back to the pool as it is, and the heap is
\* drained into the result of query i.
TaskFinish(i) ==
    /\ pool.active /\ pool.called /\ failure = "none"
    /\ i \in 1..Len(pool.queries) /\ Holding(i) /\ pool.task[i].s.done
    /\ pool' = [pool EXCEPT !.free = pool_attach(pool.free, pool.task[i].held),
                            !.task[i].stage = "done",
                            !.out[i] = take(drain_asc(pool.task[i].s.w), pool.k)]
    /\ UNCHANGED <<call, failure>>
    /\ PoolFrame

\* collect: knns returns the results in the order of the queries.
KnnsReturn ==
    /\ pool.active /\ pool.called /\ failure = "none" /\ ~pool.returned
    /\ \A i \in 1..Len(pool.queries) : pool.task[i].stage = "done"
    /\ pool' = [pool EXCEPT !.returned = TRUE]
    /\ UNCHANGED <<call, failure>>
    /\ PoolFrame

KnnsPoints == SUBSET (1..KnnsBits)
QueryLists == UNION {[1..n -> KnnsPoints] : n \in 0..MaxQueries}

\* An NSW of up to QueryNodes points, and one call of knns on it.
KnnsNext ==
    \/ \E point \in KnnsPoints :
           size(nsw_graph) < QueryNodes /\ ~pool.active /\ NSWAdd(point)
    \/ \E cap \in 1..PoolSets : NSWFrom(cap)
    \/ /\ pool.active /\ ~pool.called
       /\ \E queries \in QueryLists, k \in 1..MaxEf, ef \in 1..MaxEf,
             threads \in 1..PoolThreads, rank \in Orders :
              Knns(queries, k, ef, threads, rank)
    \/ \E i \in 1..MaxQueries : TaskStart(i)
    \/ \E i \in 1..MaxQueries : TaskStep(i)
    \/ \E i \in 1..MaxQueries : TaskFinish(i)
    \/ KnnsReturn

\* ------------------------------------------------------------- insertion, step by step
\* The insertions of the NSW builder made one statement group at a time:
\* the points are added and searched, then insert_neighbors runs for each
\* of them in turn, its first loop at once and its second loop one
\* neighbour at a time.  The variable last holds the call in progress:
\* the identifiers pidxs of the points, the heaps ws their searches
\* returned, the neighbour lists selected from them, the point j and the
\* neighbour i the loops have reached, the graph the searches read, the
\* graph g0 at the entry of
\* insert_neighbors, the graph before the last iteration of the second
\* loop, the neighbour e it examined and whether it pruned e.
RECURSIVE par_search(_, _, _, _, _, _)
par_search(g, queries, eps, o, f, i) ==
    IF i > Len(queries) THEN {<< >>}
    ELSE {<<w>> \o rest :
              w \in search(g, queries[i], o.ef_construction, eps[i], f),
              rest \in par_search(g, queries, eps, o, f, i + 1)}

Inserting == call = "insert" /\ last.op = "insert_neighbors"

InsertFrame ==
    UNCHANGED <<target, pool, set, ext, ord, options, layers, base, ep, chunked, result,
                sg, sel, beam, par>>

\* NSWBuilder::add (serial, one point) or one iteration of the chunk loop of
\* NSWBuilder::extend_parallel, up to the end of the searches.
InsertCall(points, serial) ==
    /\ target = "NSWBuilder" /\ failure = "none" /\ call = "idle"
    /\ size(nsw_graph) + Len(points) <= MaxNodes
    /\ IF serial THEN Len(points) = 1
                 ELSE nsw_ep # None /\ size(nsw_graph) >= WarmUp
    /\ LET g == add_all(nsw_graph, points, 1)
           e == IF nsw_ep = None THEN size(nsw_graph) ELSE unwrap(nsw_ep)
           pidxs == [n \in 1..Len(points) |-> size(nsw_graph) + n - 1]
       IN  /\ \E ws \in par_search(g, points, [n \in 1..Len(points) |-> e], options,
                                    "sketch", 1) :
                  last' = [op |-> "insert_neighbors", serial |-> serial,
                           stage |-> "searched", pidxs |-> pidxs, ws |-> ws,
                           lists |-> [n \in 1..Len(points) |->
                                          Keys(select_neighbors(ws[n], options.connections,
                                                                "sketch"))],
                           j |-> 1, i |-> 1, searched |-> g, g0 |-> g, before |-> g,
                           e |-> 0,
                           was_pruned |-> FALSE, ret |-> 0]
           /\ nsw_graph' = g
           /\ nsw_ep' = Some(e)
    /\ call' = "insert"
    /\ UNCHANGED <<pruned, failure>>
    /\ InsertFrame

\* The first loop of insert_neighbors for the j-th point of the call.
InsertEdges ==
    /\ Inserting /\ last.stage = "searched"
    /\ nsw_graph' = add_neighbors(nsw_graph, last.pidxs[last.j], last.lists[last.j])
    /\ last' = [last EXCEPT !.stage = "pruning", !.i = 1, !.g0 = nsw_graph,
                            !.before = nsw_graph]
    /\ UNCHANGED <<nsw_ep, call, pruned, failure>>
    /\ InsertFrame

\* One iteration of the second loop of insert_neighbors.
InsertStep ==
    /\ Inserting /\ last.stage = "pruning"
    /\ last.i <= Len(last.lists[last.j])
    /\ LET e == last.lists[last.j][last.i]
           r == prune_loop(nsw_graph, last.pidxs[last.j], <<e>>, 1,
                           options.max_connections, "sketch", FALSE)
       IN  /\ nsw_graph' = r.graph
           /\ pruned' = (pruned \/ r.pruned)
           /\ last' = [last EXCEPT !.i = last.i + 1, !.before = nsw_graph, !.e = e,
                                   !.was_pruned = r.pruned]
    /\ UNCHANGED <<nsw_ep, call, failure>>
    /\ InsertFrame

\* The end of insert_neighbors: insert_idx returns the first neighbour (a
\* chunk goes on with its next point and returns nothing).
InsertReturn ==
    /\ Inserting /\ last.stage = "pruning"
    /\ last.i > Len(last.lists[last.j])
    /\ IF last.serial /\ last.lists[last.j] = << >>
       THEN /\ failure' = "there should at least be the element we inserted"
            /\ last' = [last EXCEPT !.stage = "failed"]
            /\ call' = "idle"
       ELSE IF last.j < Len(last.pidxs)
       THEN /\ last' = [last EXCEPT !.stage = "searched", !.j = last.j + 1]
            /\ UNCHANGED <<failure, call>>
       ELSE /\ last' = [last EXCEPT !.stage = "returned",
                                    !.ret = IF last.serial THEN first(last.lists[last.j])
                                            ELSE 0]
            /\ call' = "idle"
            /\ UNCHANGED failure
    /\ UNCHANGED <<nsw_graph, nsw_ep, pruned>>
    /\ InsertFrame

InsertionNext ==
    \/ \E point \in Sketches : InsertCall(<<point>>, TRUE)
    \/ \E a, b \in Sketches : InsertCall(<<a, b>>, FALSE)
    \/ InsertEdges
    \/ InsertStep
    \/ InsertReturn

\* ------------------------------------------------------------- tests::test_hnsw
\* The points of the test are the integers of range = 0..20 and their
\* distance is |a - b|.  The builders of this module hold sketches: integer n
\* is held as the sketch with the bits 1..n set, whose distance to the sketch
\* of m is |n - m|.
S1Points == 20
S1K == 4
S1Connections == 3
S1MaxConnections == 32
S1Query == 5

IntPoint(n) == 1..n

\* NSWOptions { ef_construction: k, connections: 3, size: range.len(),
\* ..NSWOptions::default() }.
S1Options ==
    [ef_construction |-> S1K, connections |-> S1Connections,
     max_connections |-> S1MaxConnections]

\* The points that drew a level above 0.
Raised == IF layers = << >> THEN 0 ELSE size(layers[1])

S1Frame ==
    UNCHANGED <<target, pool, set, ext, ord, options, nsw_graph, nsw_ep, chunked, sg, sel,
                last, beam, par>>

\* builder.extend(range.clone()): the add of the next integer, with the level
\* random_level draws for it.
S1Add(drawn) ==
    /\ target = "HNSWBuilder" /\ failure = "none" /\ call = "idle"
    /\ size(base) < S1Points
    /\ ep = None => drawn = 0
    /\ drawn > 0 => Raised < S1Raised
    /\ \E r \in hnsw_add(layers, base, ep, options, IntPoint(size(base)), drawn) :
           HNSWLeaves(r)
    /\ result' = NoResult
    /\ UNCHANGED call
    /\ S1Frame

\* hnsw.search(&5, k, k) on the index built from the whole range.
S1Search ==
    /\ target = "HNSWBuilder" /\ failure = "none" /\ call = "idle"
    /\ size(base) = S1Points
    /\ \E r \in hnsw_search(layers, base, ep, IntPoint(S1Query), S1K, S1K) :
           /\ result' = [queried |-> TRUE, query |-> IntPoint(S1Query), k |-> S1K,
                         ef |-> S1K, out |-> r.out]
           /\ failure' = r.failure
    /\ call' = "built"
    /\ UNCHANGED <<layers, base, ep, pruned>>
    /\ S1Frame

S1Next ==
    \/ \E drawn \in 0..MaxLevel : S1Add(drawn)
    \/ S1Search

\* ------------------------------------------------------------- BitSet
\* std::mem::size_of::<Idx>(), Idx = u32.
IdxBytes == 4

\* std::mem::size_of::<usize>() on the targets of 32 and 64 bits.
UsizeBytes == {4, 8}

div_ceil(n, d) == (n + d - 1) \div d

\* word & (1 << k) != 0
bit_set(word, k) == (word \div pow2(k)) % 2 = 1

\* BitSet::new(n) with size_of::<usize>() = bytes.
bitset_new(n, bytes) == [bits |-> [i \in 1..div_ceil(n, bytes) |-> 0]]

\* Whether self.bits[t / s] is inside the vector.
bitset_indexable(bs, t) == t \div IdxBytes < Len(bs.bits)

\* BitSet::insert(t), for t with bitset_indexable: self.bits[t / s] |= 1 << (t % s).
bitset_insert(bs, t) ==
    LET i == (t \div IdxBytes) + 1
        k == t % IdxBytes
    IN  [bits |-> [bs.bits EXCEPT ![i] = IF bit_set(@, k) THEN @ ELSE @ + pow2(k)]]

\* BitSet::contains(t), for t with bitset_indexable.
bitset_contains(bs, t) == bit_set(bs.bits[(t \div IdxBytes) + 1], t % IdxBytes)

\* BitSet::reset.
bitset_reset(bs) == [bits |-> [i \in 1..Len(bs.bits) |-> 0]]

\* ------------------------------------------------------------- GenerationSet
\* ValType::MAX for a counter of GenBits bits.
ValMax == pow2(GenBits) - 1

\* GenerationSet::new(n).
generationset_new(n) == [vals |-> [i \in 1..n |-> 0], generation |-> 1]

\* GenerationSet::insert(t), for t < vals.len().
generationset_insert(gs, t) == [gs EXCEPT !.vals[t + 1] = gs.generation]

\* GenerationSet::contains(t), for t < vals.len().
generationset_contains(gs, t) == gs.vals[t + 1] = gs.generation

\* GenerationSet::reset: checked_add(1) is None at ValType::MAX and the
\* generation goes back to 1; the line that zeroes vals is commented out.
generationset_reset(gs) ==
    IF gs.generation + 1 <= ValMax
    THEN [gs EXCEPT !.generation = gs.generation + 1]
    ELSE [gs EXCEPT !.generation = 1]

\* ------------------------------------------------------------- set calls
SetFrame ==
    UNCHANGED <<target, pool, ext, ord, options, layers, base, ep, nsw_graph, nsw_ep,
                call, pruned, chunked, result, sg, sel, last, beam, par>>

\* set.inserted records the elements inserted since the last reset (or new),
\* set.resets the calls of reset, set.op the last call and set.ret what
\* contains returned.
BitSetNew(n, bytes) ==
    /\ target = "Set" /\ set.kind = "none"
    /\ set' = [kind |-> "BitSet", n |-> n, obj |-> bitset_new(n, bytes), bytes |-> bytes,
               inserted |-> {}, resets |-> 0, op |-> "new", t |-> 0, ret |-> FALSE]
    /\ UNCHANGED failure
    /\ SetFrame

GenerationSetNew(n) ==
    /\ target = "Set" /\ set.kind = "none"
    /\ set' = [kind |-> "GenerationSet", n |-> n, obj |-> generationset_new(n), bytes |-> 0,
               inserted |-> {}, resets |-> 0, op |-> "new", t |-> 0, ret |-> FALSE]
    /\ UNCHANGED failure
    /\ SetFrame

\* Whether the vector of the set can be indexed for element t.
Indexable(t) ==
    IF set.kind = "BitSet" THEN bitset_indexable(set.obj, t) ELSE t < Len(set.obj.vals)

SetInsert(t) ==
    /\ target = "Set" /\ set.kind # "none" /\ failure = "none"
    /\ IF Indexable(t)
       THEN /\ set' = [set EXCEPT !.obj = IF set.kind = "BitSet"
                                          THEN bitset_insert(set.obj, t)
                                          ELSE generationset_insert(set.obj, t),
                                  !.inserted = @ \cup {t},
                                  !.op = "insert", !.t = t]
            /\ UNCHANGED failure
       ELSE /\ set' = [set EXCEPT !.op = "insert", !.t = t]
            /\ failure' = "index out of bounds"
    /\ SetFrame

SetContains(t) ==
    /\ target = "Set" /\ set.kind # "none" /\ failure = "none"
    /\ IF Indexable(t)
       THEN /\ set' = [set EXCEPT !.op = "contains", !.t = t,
                                  !.ret = IF set.kind = "BitSet"
                                          THEN bitset_contains(set.obj, t)
                                          ELSE generationset_contains(set.obj, t)]
            /\ UNCHANGED failure
       ELSE /\ set' = [set EXCEPT !.op = "contains", !.t = t]
            /\ failure' = "index out of bounds"
    /\ SetFrame

SetReset ==
    /\ target = "Set" /\ set.kind # "none" /\ failure = "none"
    /\ set.resets < MaxResets
    /\ set' = [set EXCEPT !.obj = IF set.kind = "BitSet"
                                  THEN bitset_reset(set.obj)
                                  ELSE generationset_reset(set.obj),
                          !.inserted = {}, !.resets = @ + 1, !.op = "reset"]
    /\ UNCHANGED failure
    /\ SetFrame

SetNext ==
    \/ \E n \in 1..BitSetN, bytes \in UsizeBytes : BitSetNew(n, bytes)
    \/ \E n \in 1..GenSetN : GenerationSetNew(n)
    \/ \E t \in 0..(BitSetN - 1) : SetInsert(t)
    \/ \E t \in 0..(BitSetN - 1) : SetContains(t)
    \/ SetReset

\* ------------------------------------------------------------- Distance::cmp calls
\* The records compared: distances, keys and referenced points.
Records == [distance : 0..OrdDistances, key : 0..OrdKeys, point : 0..OrdPoints]

OrderFrame ==
    UNCHANGED <<target, pool, set, ext, options, layers, base, ep, nsw_graph, nsw_ep,
                call, pruned, chunked, failure, result, sg, sel, last, beam, par>>

\* The records a, b and c are compared with each other.
Compare(a, b, c) ==
    /\ target = "Distance" /\ ~ord.called
    /\ ord' = [called |-> TRUE, a |-> a, b |-> b, c |-> c,
               ab |-> cmp(a, b), ba |-> cmp(b, a), bc |-> cmp(b, c), ac |-> cmp(a, c)]
    /\ OrderFrame

OrderNext == \E a \in Records, b \in Records, c \in Records : Compare(a, b, c)

\* ------------------------------------------------------------- specification
Init ==
    /\ target \in {"HNSWBuilder", "NSWBuilder", "SimpleGraph"}
    /\ options \in Options
    /\ target = "SimpleGraph" => options.ef_construction = 1 /\ options.max_connections = 2
    /\ layers = << >>
    /\ base = EmptyGraph
    /\ ep = None
    /\ nsw_graph = EmptyGraph
    /\ nsw_ep = None
    /\ call = "idle"
    /\ pruned = FALSE
    /\ chunked = FALSE
    /\ failure = "none"
    /\ result = NoResult
    /\ sg = EmptyGraph
    /\ sel = NoSelect
    /\ last = NoCall
    /\ beam = NoBeam
    /\ par = NoPar
    /\ pool = NoPool
    /\ set = NoSet
    /\ ext = NoExt
    /\ ord = NoOrd

Next == HNSWNext \/ NSWNext \/ GraphNext

Spec == Init /\ [][Next]_vars

InitQuery == Init /\ target \in {"HNSWBuilder", "NSWBuilder"}

SpecQuery == InitQuery /\ [][QueryNext]_vars

InitSelect ==
    /\ target = "select_neighbors"
    /\ options \in {o \in Options : o.ef_construction = 1 /\ o.max_connections = 2}
    /\ layers = << >>
    /\ base = EmptyGraph
    /\ ep = None
    /\ nsw_graph = EmptyGraph
    /\ nsw_ep = None
    /\ call = "idle"
    /\ pruned = FALSE
    /\ chunked = FALSE
    /\ failure = "none"
    /\ result = NoResult
    /\ sg = EmptyGraph
    /\ sel = NoSelect
    /\ last = NoCall
    /\ beam = NoBeam
    /\ par = NoPar
    /\ pool = NoPool
    /\ set = NoSet
    /\ ext = NoExt
    /\ ord = NoOrd

SpecSelect == InitSelect /\ [][SelectNext]_vars

InitGraph == Init /\ target = "SimpleGraph"

SpecGraph == InitGraph /\ [][GraphCalls]_vars

SpecSearch == InitGraph /\ [][SearchNext]_vars

\* A search that was started goes on: the thread running it is scheduled.
SpecSearchLive == InitGraph /\ [][SearchNext]_vars /\ WF_vars(SearchStep)

SpecParallel == InitQuery /\ [][ParallelNext]_vars

\* No builder is driven: only the objects of the library are.
InitLibrary ==
    /\ options \in {o \in Options : o.ef_construction = 1 /\ o.max_connections = 2}
    /\ layers = << >>
    /\ base = EmptyGraph
    /\ ep = None
    /\ nsw_graph = EmptyGraph
    /\ nsw_ep = None
    /\ call = "idle"
    /\ pruned = FALSE
    /\ chunked = FALSE
    /\ failure = "none"
    /\ result = NoResult
    /\ sg = EmptyGraph
    /\ sel = NoSelect
    /\ last = NoCall
    /\ beam = NoBeam
    /\ par = NoPar
    /\ pool = NoPool
    /\ set = NoSet
    /\ ext = NoExt
    /\ ord = NoOrd

InitOrder == target = "Distance" /\ InitLibrary

SpecOrder == InitOrder /\ [][OrderNext]_vars

SpecExtend == InitQuery /\ [][ExtNext]_vars

\* HNSWBuilder::new with the options of the test.
InitS1 ==
    /\ target = "HNSWBuilder"
    /\ options = S1Options
    /\ layers = << >>
    /\ base = EmptyGraph
    /\ ep = None
    /\ nsw_graph = EmptyGraph
    /\ nsw_ep = None
    /\ call = "idle"
    /\ pruned = FALSE
    /\ chunked = FALSE
    /\ failure = "none"
    /\ result = NoResult
    /\ sg = EmptyGraph
    /\ sel = NoSelect
    /\ last = NoCall
    /\ beam = NoBeam
    /\ par = NoPar
    /\ pool = NoPool
    /\ set = NoSet
    /\ ext = NoExt
    /\ ord = NoOrd

SpecS1 == InitS1 /\ [][S1Next]_vars

InitKnns == Init /\ target = "NSWBuilder" /\ options.ef_construction = MaxEf

SpecKnns == InitKnns /\ [][KnnsNext]_vars

InitSet == target = "Set" /\ InitLibrary

SpecSet == InitSet /\ [][SetNext]_vars

\* HNSWBuilder::new(options) and NSWBuilder::new(options) for any options.
InitConfig ==
    /\ target \in {"HNSWBuilder", "NSWBuilder"}
    /\ options \in AnyOptions
    /\ layers = << >>
    /\ base = EmptyGraph
    /\ ep = None
    /\ nsw_graph = EmptyGraph
    /\ nsw_ep = None
    /\ call = "idle"
    /\ pruned = FALSE
    /\ chunked = FALSE
    /\ failure = "none"
    /\ result = NoResult
    /\ sg = EmptyGraph
    /\ sel = NoSelect
    /\ last = NoCall
    /\ beam = NoBeam
    /\ par = NoPar
    /\ pool = NoPool
    /\ set = NoSet
    /\ ext = NoExt
    /\ ord = NoOrd

SpecConfig == InitConfig /\ [][ConfigNext]_vars

\* The HNSW builder, the NSW builder built step by step, and one query of
\* the index built.
BoundsNext ==
    \/ HNSWNext
    \/ InsertionNext
    \/ \E query \in Sketches, ef \in 1..MaxEf : HNSWSearch(query, MaxK, ef)
    \/ \E query \in Sketches, ef \in 1..MaxEf : NSWSearch(query, MaxK, ef)

SpecBounds == InitQuery /\ [][BoundsNext]_vars

\* NSWBuilder::new(options) for any options, built step by step.
InitInsert == InitConfig /\ target = "NSWBuilder"

SpecInsert == InitInsert /\ [][InsertionNext]_vars

\* ------------------------------------------------------------- invariants of the graphs
UpperLayers == {layers[l] : l \in 1..Len(layers)}
BuilderGraphs == {base, nsw_graph} \cup UpperLayers
AllGraphs == BuilderGraphs \cup {sg}

adj(g, v) == g.adj_lists[v + 1]
NodesOf(g) == 0..(Len(g.adj_lists) - 1)
HasEdge(g) == \E v \in NodesOf(g) : \E w \in adj(g, v) : w # v

\* C1.  Adjacency is symmetric in every graph of the builders and in a
\* SimpleGraph driven through add, add_edge, remove_edge, clear_edges and
\* add_neighbors: every member w of adj(v) is a node and has v in adj(w).
C1_AdjacencySymmetric ==
    \A g \in AllGraphs : \A v \in NodesOf(g) : \A w \in adj(g, v) :
        w \in NodesOf(g) /\ v \in adj(g, w)

\* An HNSW builder with edges in base and in an upper layer after a pruning.
C1_Witness == pruned /\ HasEdge(base) /\ Len(layers) > 0 /\ HasEdge(layers[1])

\* C2.  No node of a graph of the builders is its own neighbour.
C2_NoSelfLoops ==
    \A g \in BuilderGraphs : \A v \in NodesOf(g) : v \notin adj(g, v)

\* C3.  After every completed add and every completed chunk, every node of
\* every graph of the builders has at most max_connections neighbours.
C3_DegreeBound ==
    \A g \in BuilderGraphs : \A v \in NodesOf(g) :
        Cardinality(adj(g, v)) <= options.max_connections

\* C4.  The entry point of the HNSW builder is absent exactly when base is
\* empty; otherwise it is an identifier of the top upper layer (of base when
\* there is no upper layer); and no upper layer is empty.
C4_EntryPoint ==
    /\ (ep = None) <=> (size(base) = 0)
    /\ ep # None =>
           unwrap(ep) < size(IF Len(layers) = 0 THEN base ELSE layers[Len(layers)])
    /\ \A l \in 1..Len(layers) : size(layers[l]) > 0

\* Two upper layers, the top one created or filled by a chunk.
C4_Witness == call = "chunks" /\ Len(layers) >= 2 /\ ep # None

\* C5.  Every node (p, down) of an upper layer has down in bounds of the
\* layer below (base for layer 0), where the node at down holds p; and an
\* upper layer has at most as many nodes as the layer below.
Below(l) == IF l = 1 THEN base ELSE layers[l - 1]
PointAt(l, v) == IF l = 0 THEN get(base, v) ELSE get(layers[l], v)[1]

C5_LayerContainment ==
    \A l \in 1..Len(layers) :
        /\ size(layers[l]) <= size(Below(l))
        /\ \A v \in 0..(size(layers[l]) - 1) :
               LET node == get(layers[l], v)
               IN  /\ node[2] < size(Below(l))
                   /\ PointAt(l - 1, node[2]) = node[1]

\* Two upper layers with two nodes in the lower one, after a chunk.
C5_Witness ==
    /\ call = "chunks" /\ Len(layers) >= 2
    /\ size(layers[1]) >= 2 /\ size(layers[1]) < size(base)


\* ------------------------------------------------------------- query claims
\* What the query of this behaviour was made on.
Index == IF target = "HNSWBuilder" THEN base ELSE nsw_graph
Outcomes ==
    IF target = "HNSWBuilder"
    THEN hnsw_search(layers, base, ep, result.query, result.k, result.ef)
    ELSE nsw_search(nsw_graph, nsw_ep, result.query, result.k, result.ef)
OutKeys == {result.out[i].key : i \in 1..Len(result.out)}
SerialHNSWQueryOfAll ==
    /\ result.queried /\ target = "HNSWBuilder" /\ ~chunked
    /\ size(base) >= 1 /\ result.k = size(base) /\ result.ef = size(base)

\* C6: on an HNSW index built by serial add calls alone, with n >= 1 points,
\* a search with k = ef = n returns n records holding every base node once,
\* whether or not insert_neighbors pruned a neighbour during the build.
C6_FullReachability ==
    SerialHNSWQueryOfAll => Len(result.out) = size(base) /\ OutKeys = NodesOf(base)

\* C7: a query with ef >= k >= 1 on a non-empty index returns at most k
\* records, in strictly ascending (distance, key) order, with distinct keys,
\* each carrying the distance between the point stored under its key and the
\* query.
C7_QueryResultShape ==
    result.queried /\ failure = "none" /\ size(Index) >= 1
                   /\ result.k >= 1 /\ result.ef >= result.k
        => /\ Len(result.out) <= result.k
           /\ \A i \in 1..(Len(result.out) - 1) :
                  \/ result.out[i].distance < result.out[i + 1].distance
                  \/ /\ result.out[i].distance = result.out[i + 1].distance
                     /\ result.out[i].key < result.out[i + 1].key
           /\ \A i, j \in 1..Len(result.out) : i # j => result.out[i].key # result.out[j].key
           /\ \A i \in 1..Len(result.out) :
                  /\ result.out[i].key \in NodesOf(Index)
                  /\ result.out[i].distance
                         = SketchDistance(get(Index, result.out[i].key), result.query)

C7_Witness ==
    /\ result.queried /\ failure = "none" /\ result.k = 2 /\ result.ef >= result.k
    /\ Len(result.out) = 2
    /\ result.out[1].distance = result.out[2].distance
    /\ result.out[1].distance > 0

\* C8: the result of a search on a fixed graph does not depend on the order
\* in which the adjacency sets are enumerated: every outcome the search may
\* have for this index and query is the one that was returned.
C8_SearchDeterministic ==
    result.queried => \A r \in Outcomes : r.out = result.out

\* C9: a query on an empty index returns an empty vector and does not fail.
C9_EmptyIndexQuery ==
    result.queried /\ size(Index) = 0 => result.out = << >> /\ failure = "none"

C9_Witness ==
    /\ result.queried /\ size(Index) = 0 /\ target = "HNSWBuilder"
    /\ result.k >= 1 /\ result.ef >= 1 /\ result.out = << >>


\* ------------------------------------------------------------- selection claim
\* The candidates of the call in ascending (distance, key) order.
Ascending == drain_asc(sel.candidates)
\* The positions of Ascending that the stated rule accepts: position i is
\* accepted exactly when fewer than m earlier positions are accepted and every
\* accepted earlier record is farther from this one than the query is.
RuleAccepts(A) ==
    \A i \in 1..Len(Ascending) :
        i \in A <=> /\ Cardinality({j \in A : j < i}) < sel.m
                    /\ \A j \in A : j < i =>
                           IntDistance(Ascending[i].point, Ascending[j].point)
                               > IntDistance(Ascending[i].point, sel.query)
\* The accepted positions in order are the records of out.
IsListOf(A) ==
    /\ Len(sel.out) = Cardinality(A)
    /\ \A n \in 1..Len(sel.out) :
           \E i \in A : Cardinality({j \in A : j <= i}) = n /\ sel.out[n] = Ascending[i]
OutPoints == {sel.out[n].point : n \in 1..Len(sel.out)}
IsExample ==
    /\ {x.point : x \in sel.candidates} = {1, 5, 6, 7, 16, 18}
    /\ sel.query = 10 /\ sel.m = 3

\* C10: select_neighbors returns the candidates that the rule accepts, in
\* ascending (distance, key) order: e is accepted if and only if fewer than m
\* are accepted already and every accepted r has d(e, r) > d(e, query); for the
\* points {1,5,6,7,16,18}, query 10 and m = 3 the accepted set is {7, 16}.
C10_SelectionRule ==
    sel.called =>
        /\ \E A \in SUBSET (1..Len(Ascending)) : RuleAccepts(A) /\ IsListOf(A)
        /\ IsExample => OutPoints = {7, 16}

C10_Witness == sel.called /\ IsExample /\ OutPoints = {7, 16}


DistinctKeys(h) == \A x, y \in h : x.key = y.key => x = y

\* C11: for a candidate heap with distinct keys and any m >= 0,
\* select_neighbors returns at most m records, no key twice, and nothing
\* when m = 0.
C11_SelectAtMostM ==
    sel.called /\ DistinctKeys(sel.candidates)
        => /\ Len(sel.out) <= sel.m
           /\ \A i, j \in 1..Len(sel.out) : i # j => sel.out[i].key # sel.out[j].key
           /\ sel.m = 0 => sel.out = << >>

C11_Witness ==
    /\ sel.called /\ DistinctKeys(sel.candidates)
    /\ Cardinality(sel.candidates) > sel.m
    /\ sel.m >= 2 /\ Len(sel.out) = sel.m


\* C12: with ef >= 1 and an entry point in the graph, the heap w of a search
\* holds at least 1 and at most ef records with distinct keys, at the start,
\* after every neighbour processed and when the search returns it.
C12_SearchBound ==
    beam.active /\ beam.ef >= 1
        => /\ Cardinality(beam.s.w) >= 1
           /\ Cardinality(beam.s.w) <= beam.ef
           /\ DistinctKeys(beam.s.w)
           /\ \A x \in beam.s.w : has(sg, x.key)

C12_Witness ==
    /\ beam.active /\ beam.s.done
    /\ beam.ef >= 2 /\ Cardinality(beam.s.w) = beam.ef
    /\ Cardinality(beam.s.visited) > beam.ef


\* ------------------------------------------------------------- graph store claims
\* C13: add returns the number of nodes held before the call, appends one
\* node and one empty adjacency set, leaves the existing nodes and adjacency
\* sets as they were, and the node list and the adjacency list have the same
\* length in every state.
C13_GraphAdd ==
    /\ [](Len(sg.nodes) = Len(sg.adj_lists))
    /\ [][last'.op = "add" =>
            /\ last'.ret = Len(sg.nodes)
            /\ sg'.nodes = Append(sg.nodes, last'.t)
            /\ sg'.adj_lists = Append(sg.adj_lists, {})
            /\ \A v \in NodesOf(sg) : get(sg', v) = get(sg, v) /\ adj(sg', v) = adj(sg, v)
            /\ get(sg', last'.ret) = last'.t]_vars

C13_Witness ==
    /\ last.op = "add" /\ last.ret = 2 /\ size(sg) = 3
    /\ HasEdge(sg) /\ get(sg, 0) # get(sg, 2)


\* C14: add_edge(v, w) and remove_edge(v, w) with v or w not below size leave
\* the nodes and every adjacency set as they were and do not fail;
\* neighborhood(v) with v not below size yields nothing.
C14_OutOfBounds ==
    [][/\ last'.op \in {"add_edge", "remove_edge"}
             /\ (last'.v >= size(sg) \/ last'.w >= size(sg))
          => sg' = sg /\ failure' = "none"
       /\ last'.op = "neighborhood" /\ last'.v >= size(sg)
          => last'.ret = {} /\ sg' = sg /\ failure' = "none"]_vars

C14_Witness ==
    /\ last.op = "add_edge" /\ last.v < size(sg) /\ last.w >= size(sg)
    /\ size(sg) >= 2 /\ HasEdge(sg) /\ failure = "none"


InBounds(c) == c.v < size(sg) /\ c.w < size(sg)

\* C15: for v and w in bounds, add_edge(v, w) puts w in adj(v) and v in
\* adj(w) and touches no other adjacency set, add_edge(w, v) would have given
\* the same graph, and add_edge(v, w) once more changes nothing.
C15_AddEdge ==
    [][last'.op = "add_edge" /\ InBounds(last') =>
           /\ last'.w \in adj(sg', last'.v)
           /\ last'.v \in adj(sg', last'.w)
           /\ adj(sg', last'.v) = adj(sg, last'.v) \cup {last'.w}
           /\ adj(sg', last'.w) = adj(sg, last'.w) \cup {last'.v}
           /\ \A u \in NodesOf(sg) : u \notin {last'.v, last'.w} => adj(sg', u) = adj(sg, u)
           /\ sg'.nodes = sg.nodes
           /\ sg' = add_edge(sg, last'.w, last'.v)
           /\ add_edge(sg', last'.v, last'.w) = sg']_vars

C15_Witness ==
    /\ last.op = "add_edge" /\ InBounds(last) /\ last.v # last.w
    /\ size(sg) = 3
    /\ Cardinality(adj(sg, last.v)) >= 2
    /\ last.w \in adj(sg, last.v) /\ last.v \in adj(sg, last.w)


\* C16: after clear_edges(v), adj(v) is empty, v is in the adjacency set of
\* none of its former neighbours, and the nodes and every edge not incident
\* to v are as before.
C16_ClearEdges ==
    [][last'.op = "clear_edges" /\ last'.v < size(sg) =>
           /\ last'.neighbors = adj(sg, last'.v)
           /\ adj(sg', last'.v) = {}
           /\ \A u \in last'.neighbors : last'.v \notin adj(sg', u)
           /\ \A u \in NodesOf(sg) : u # last'.v => adj(sg', u) = adj(sg, u) \ {last'.v}
           /\ sg'.nodes = sg.nodes]_vars

C16_Witness ==
    /\ last.op = "clear_edges" /\ last.v < size(sg)
    /\ Cardinality(last.neighbors \ {last.v}) >= 2
    /\ adj(sg, last.v) = {}
    /\ HasEdge(sg)


\* ------------------------------------------------------------- configuration claim
\* C17: a builder whose options have connections < 2 or ef_construction < 1
\* is rejected when it is constructed: no add ever runs on it.
C17_InvalidConfigurationRejected ==
    options.connections < 2 \/ options.ef_construction < 1
        => size(base) = 0 /\ size(nsw_graph) = 0


\* ------------------------------------------------------------- invalid queries
\* C18: on a non-empty index a search with k = 0 or with ef < k completes
\* without a failure and returns at most k records.
C18_InvalidQuery ==
    result.queried /\ size(Index) >= 1 /\ (result.k = 0 \/ result.ef < result.k)
        => failure = "none" /\ Len(result.out) <= result.k

C18_Witness ==
    /\ result.queried /\ size(Index) = QueryNodes /\ failure = "none"
    /\ result.ef >= 1 /\ result.ef < result.k
    /\ Len(result.out) = result.ef


\* ------------------------------------------------------------- parallel build
\* The graphs of the builder, as a parallel phase sees them.
Graphs == [layers |-> layers, base |-> base, nsw_graph |-> nsw_graph]

Running == par.active /\ \E i \in DOMAIN par.status : par.status[i] = "running"

\* What the phase leaves of its graph when its workers read the graphs of
\* the fork and their results are inserted in chunk order.
phase_serial(ph, o) ==
    seq_insert(PhaseGraphOf(ph, ph.fork.layers, ph.fork.base, ph.fork.nsw_graph),
               [i \in 1..Len(ph.points) |-> PhaseIdx(ph, i)],
               [i \in 1..Len(ph.points) |->
                    TaskOn(ph, o, ph.fork.layers, ph.fork.base, ph.fork.nsw_graph, i).out],
               o.max_connections, PhaseDistance(ph), 1, FALSE).graph

\* C19: while a worker of a parallel search phase is running no graph of the
\* builder changes; up to the join the graphs are those of the fork and no
\* insert_neighbors step of the phase has started; an insert_neighbors step
\* starts only when every worker of the phase has finished.
C19_ReadWritePhasing ==
    /\ [](par.active /\ par.stage = "search" =>
              Graphs = par.fork /\ par.next = 1 /\ par.inserted = << >>)
    /\ [](par.active /\ (par.stage = "insert" \/ par.inserted # << >>) =>
              \A i \in DOMAIN par.status : par.status[i] = "done")
    /\ [][Running => UNCHANGED <<layers, base, nsw_graph>>]_vars

C19_Witness ==
    /\ target = "HNSWBuilder" /\ par.active /\ par.where = "layer"
    /\ par.stage = "insert" /\ par.next = 2
    /\ par.finished = <<2, 1>>
    /\ Graphs # par.fork

\* C20: insert_neighbors is applied to the points of the chunk in chunk
\* order whatever the order in which the workers finished, every worker's
\* result is what its search gives on the graphs of the fork, and the graph a
\* phase leaves is the one the serial run of the phase on the graphs of the
\* fork leaves: for the same points, level and enumeration order of the
\* adjacency sets, the same graph under every schedule of the workers.
C20_DeterministicIntegration ==
    par.active =>
        /\ par.inserted = [j \in 1..(par.next - 1) |-> PhaseIdx(par, j)]
        /\ \A i \in DOMAIN par.status :
               par.status[i] = "done" =>
                   par.out[i] = TaskOn(par, options, par.fork.layers, par.fork.base,
                                       par.fork.nsw_graph, i).out
        /\ par.where # "descent" /\ par.stage \in {"integrated", "done"} =>
               PhaseGraphOf(par, layers, base, nsw_graph) = phase_serial(par, options)

C20_Witness ==
    /\ par.active /\ par.stage = "done" /\ failure = "none"
    /\ par.finished = <<2, 1>>
    /\ par.out[1] # << >> /\ par.out[2] # << >> /\ par.out[1] # par.out[2]
    /\ Graphs # par.fork


\* ------------------------------------------------------------- ordering of records
LexLess(a, b) == a.distance < b.distance \/ (a.distance = b.distance /\ a.key < b.key)

\* C27: Distance::cmp is the lexicographic order on (distance, key): it
\* says Less exactly when the distance is smaller, or the distances are equal
\* and the key is smaller; Equal exactly when both are equal; it is
\* antisymmetric and transitive; the referenced point changes nothing.
C27_DistanceOrdering ==
    ord.called =>
        /\ (ord.ab = "Less") = LexLess(ord.a, ord.b)
        /\ (ord.ab = "Greater") = LexLess(ord.b, ord.a)
        /\ (ord.ab = "Equal") = (ord.a.distance = ord.b.distance /\ ord.a.key = ord.b.key)
        /\ (ord.ab = "Less") = (ord.ba = "Greater")
        /\ (ord.ab = "Equal") = (ord.ba = "Equal")
        /\ ord.ab = "Less" /\ ord.bc = "Less" => ord.ac = "Less"
        /\ \A p \in 0..OrdPoints, q \in 0..OrdPoints :
               cmp([ord.a EXCEPT !.point = p], [ord.b EXCEPT !.point = q]) = ord.ab

C27_Witness ==
    /\ ord.called
    /\ ord.a.distance = ord.b.distance /\ ord.a.key < ord.b.key /\ ord.a.point > ord.b.point
    /\ ord.ab = "Less" /\ ord.ba = "Greater"
    /\ ord.b.distance < ord.c.distance /\ ord.b.key > ord.c.key /\ ord.bc = "Less"


\* ------------------------------------------------------------- visited sets
\* What contains(x) returns on the set as it is.
Contains(x) ==
    IF set.kind = "BitSet" THEN bitset_contains(set.obj, x)
    ELSE generationset_contains(set.obj, x)

\* C28: after reset() of a GenerationSet, contains(x) is false for every x,
\* whatever the resets and inserts made before.
C28_GenerationSetReset ==
    set.kind = "GenerationSet" /\ set.op = "reset" =>
        \A x \in 0..(set.n - 1) : ~Contains(x)

\* C29: on a BitSet made by new(n), insert(t) succeeds for every t < n and
\* contains(t) is true afterwards; contains(u) is true for the u < n inserted
\* since the last reset and for no other; after reset() contains is false for
\* every element.
C29_BitSetMembership ==
    set.kind = "BitSet" =>
        /\ set.op = "insert" /\ set.t < set.n =>
               failure = "none" /\ Contains(set.t)
        /\ set.op = "contains" /\ set.t < set.n =>
               failure = "none" /\ set.ret = (set.t \in set.inserted)
        /\ set.op = "reset" =>
               \A x \in 0..(set.n - 1) : Indexable(x) => ~Contains(x)


\* ------------------------------------------------------------- beam search
\* The search is at the head of its while loop with a candidate to pop.
AtLoopHead == beam.active /\ ~beam.s.done /\ beam.s.rem = {} /\ beam.s.cands # {}

\* The step of the procedure that stops only when the popped candidate is
\* farther than the farthest record of w and w holds ef records or more.
step_when_full(g, query, ef, s) ==
    LET c == peek_min(s.cands)
        fr == peek_max(s.w)
    IN  IF c.distance > fr.distance /\ Cardinality(s.w) >= ef
        THEN {[s EXCEPT !.done = TRUE]}
        ELSE {[s EXCEPT !.cands = @ \ {c}, !.rem = neighborhood(g, c.key)]}

\* C30: with ef >= 1, at the head of the loop the code's step (which stops
\* as soon as the popped candidate is farther than the farthest record of w)
\* is the step of the procedure that also requires |w| >= ef to stop: while
\* |w| < ef the popped candidate is never farther than the farthest of w.
C30_BeamSearchMatches ==
    AtLoopHead /\ beam.ef >= 1 =>
        /\ Cardinality(beam.s.w) < beam.ef =>
               peek_min(beam.s.cands).distance <= peek_max(beam.s.w).distance
        /\ search_step(sg, beam.query, beam.ef, "sketch", beam.s)
               = step_when_full(sg, beam.query, beam.ef, beam.s)

C30_Witness ==
    /\ AtLoopHead /\ beam.ef = 3 /\ Cardinality(beam.s.w) = 2
    /\ peek_min(beam.s.cands).distance = peek_max(beam.s.w).distance
    /\ peek_min(beam.s.cands).distance > 0
    /\ Cardinality(beam.s.visited) = 2


\* ------------------------------------------------------------- warm-up and levels
\* The points extend_parallel is to add serially on a builder of n nodes and
\* an input of len points: up to WarmUp nodes or the end of the input.
ToSeed(n, len) ==
    LET missing == IF n < WarmUp THEN WarmUp - n ELSE 0
    IN  IF len < missing THEN len ELSE missing

\* C23: whatever the number of nodes in the builder when extend_parallel is
\* called, the subtraction of the warm-up does not fail, and when the chunk
\* loop is reached (or the call has returned) exactly the points that bring
\* the graph to WarmUp nodes were added serially: none when the builder held
\* WarmUp nodes or more.
C23_WarmUpSeeding ==
    ext.called =>
        /\ failure # "attempt to subtract with overflow"
        /\ ext.stage \in {"chunks", "returned"} /\ failure = "none" =>
               ext.seeded = ToSeed(ext.size0, Len(ext.input))

\* The level the j-th point of the input draws when every point that needs a
\* level draws its own, in input order, from the stream.
OwnDraw(j) ==
    IF ext.first_free THEN (IF j = 1 THEN 0 ELSE ext.stream0[j - 1]) ELSE ext.stream0[j]

\* C24: every point extend_parallel adds is put on the layers of its own
\* level draw, as a serial add of the same points would put it.
C24_PerPointLevels ==
    ext.called /\ target = "HNSWBuilder" =>
        \A j \in 1..Len(ext.given) : ext.given[j] = OwnDraw(j)


\* ------------------------------------------------------------- visited sets of searches
Tasks == 1..Len(pool.queries)

\* C21: two searches that hold a set at the same time hold different sets,
\* and the set a search holds contains exactly the identifiers that search
\* marked itself, whatever the searches that held the set before left in it.
C21_VisitedIsolation ==
    pool.active /\ pool.called =>
        /\ \A i \in Tasks, j \in Tasks :
               i # j /\ Holding(i) /\ Holding(j) => pool.task[i].held # pool.task[j].held
        /\ \A i \in Tasks : Holding(i) => pool.content[pool.task[i].held] = pool.task[i].marks
        /\ \A i \in Tasks : Holding(i) => pool.task[i].held \notin {pool.free[n] : n \in 1..Len(pool.free)}

\* Two searches overlap, one of them on a set that an earlier search left
\* with marks, while that earlier search found a node this one has not marked.
C21_Witness ==
    /\ pool.active /\ pool.called
    /\ \E i \in Tasks, j \in Tasks :
           /\ i # j /\ Holding(i) /\ Holding(j)
           /\ i \in pool.reused
           /\ \E h \in Tasks : /\ pool.task[h].stage = "done"
                               /\ pool.out[h] # << >>
                               /\ \E d \in {pool.out[h][n] : n \in 1..Len(pool.out[h])} :
                                      d.key \notin pool.task[i].marks

\* C22: a search that checks out a visited set while the pool holds none
\* goes on with a fresh set: the checkout does not fail.
C22_EmptyPoolCheckout ==
    pool.active /\ pool.called /\ pool.starved => failure = "none"

\* What search(query_i, k, ef) returns when it runs alone on the index.
Alone(i) ==
    take(drain_asc(search_ordered(nsw_graph, pool.queries[i], pool.ef, unwrap(nsw_ep),
                                  "sketch", pool.rank)), pool.k)

\* C26: knns does not fail, and when it has returned, the i-th result is what
\* search(query_i, k, ef) returns alone, for every schedule of the searches.
C26_ParallelQuerying ==
    pool.active /\ pool.called =>
        /\ failure = "none"
        /\ pool.returned /\ nsw_ep # None =>
               /\ DOMAIN pool.out = 1..Len(pool.queries)
               /\ \A i \in Tasks : pool.out[i] = Alone(i)


\* ------------------------------------------------------------- scenario S1
\* The integers of the records search returned.
Found == {Cardinality(result.out[n].point) : n \in 1..Len(result.out)}

\* C25: for the HNSW built serially from 0..19 with connections = 3 and
\* ef_construction = 4, whatever the levels drawn, search(5, 4, 4) returns
\* four records whose points are {3, 4, 5, 6} or {4, 5, 6, 7}.
C25_ScenarioS1 ==
    target = "HNSWBuilder" /\ options = S1Options /\ result.queried =>
        /\ failure = "none"
        /\ Len(result.out) = S1K
        /\ Cardinality(Found) = S1K
        /\ Found \in {3..6, 4..7}

C25_Witness ==
    /\ target = "HNSWBuilder" /\ options = S1Options /\ result.queried
    /\ size(base) = S1Points /\ Len(layers) = MaxLevel /\ Raised = S1Raised
    /\ Found = 3..6


\* ------------------------------------------------------------- pool conservation
FreeSets == {pool.free[n] : n \in 1..Len(pool.free)}
HeldSets == {pool.task[i].held : i \in {j \in Tasks : Holding(j)}}

\* C38: with a pool of N sets and at most N searches at a time, no checkout
\* finds the pool empty; every set is either in the pool or held by one
\* running search; and once all the searches have ended the pool holds its N
\* sets again.
C38_PoolConservation ==
    pool.active /\ pool.called /\ pool.threads <= pool.cap =>
        /\ ~pool.starved
        /\ failure # "called Option::unwrap() on a None value"
        /\ Len(pool.free) = Cardinality(FreeSets)
        /\ FreeSets \cap HeldSets = {}
        /\ FreeSets \cup HeldSets = 1..pool.cap
        /\ (\A i \in Tasks : pool.task[i].stage = "done") => FreeSets = 1..pool.cap

\* Three searches by two threads on a pool of two sets have ended, one of
\* them on a set used before, and the pool holds two sets.
C38_Witness ==
    /\ pool.active /\ pool.called /\ pool.returned
    /\ pool.threads = 2 /\ pool.cap = 2 /\ Len(pool.queries) = 3
    /\ nsw_ep # None /\ pool.reused # {}
    /\ Len(pool.free) = 2


\* ------------------------------------------------------------- termination of search
\* C31: every search that was started ends, and while it runs no node is
\* marked visited, nor has its distance to the query computed, more than once.
C31_SearchTerminates ==
    /\ [](beam.active => \A v \in DOMAIN beam.computed : beam.computed[v] <= 1)
    /\ (beam.active ~> (beam.active /\ beam.s.done))

\* A search on a graph with a cycle has ended after it met a visited node again.
C31_Witness ==
    /\ beam.active /\ beam.s.done /\ size(sg) = 3
    /\ \A v \in 0..2 : Cardinality(neighborhood(sg, v)) >= 2
    /\ \A v \in 0..2 : beam.computed[v] = 1


\* ------------------------------------------------------------- insert_neighbors
\* The call of insert_neighbors in progress: its arguments, and whether its
\* second loop has ended.
PointIdx == last.pidxs[last.j]
Neighbors == last.lists[last.j]
NeighborSet == {Neighbors[n] : n \in 1..Len(Neighbors)}
Stepped == Inserting /\ last.stage = "pruning" /\ last.i > 1
Inserted == Inserting /\ last.stage = "pruning" /\ last.i > Len(Neighbors)

\* The second loop made one neighbour at a time leaves the graph that
\* insert_neighbors leaves.
StepwiseAgrees ==
    Inserted =>
        nsw_graph = insert_neighbors(last.g0, PointIdx, Neighbors, options.max_connections,
                                     "sketch").graph

\* C34: with connections >= 1 the neighbour list selected for a serial add is
\* never empty, insert_idx does not fail, and the identifier it returns is
\* the key of the least (distance, key) record of the heap search returned.
C34_InsertIdxReturn ==
    target = "NSWBuilder" /\ options.connections >= 1 =>
        /\ failure = "none"
        /\ last.op = "insert_neighbors" => \A n \in 1..Len(last.lists) : last.lists[n] # << >>
        /\ last.op = "insert_neighbors" /\ last.serial /\ last.stage = "returned" =>
               /\ last.ret = peek_min(last.ws[1]).key
               /\ last.ret = Neighbors[1]

\* A serial add that returned another identifier than the one of the new
\* point, out of a heap of several records and a list of several neighbours.
C34_Witness ==
    /\ last.op = "insert_neighbors" /\ last.serial /\ last.stage = "returned"
    /\ options.connections >= 1
    /\ Cardinality(last.ws[1]) >= 2 /\ Len(Neighbors) >= 2
    /\ last.ret # PointIdx


\* The identifiers select_neighbors keeps of the neighbours e has in g, by
\* their distances to the point of e.
SelectedOf(g, e, m_max) ==
    LET candidates == {NewDistance(distance_fn("sketch", get(g, idx), get(g, e)), idx,
                                   get(g, idx)) : idx \in adj(g, e)}
        kept == select_neighbors(candidates, m_max, "sketch")
    IN  {kept[n].key : n \in 1..Len(kept)}

\* C35: when the second loop of insert_neighbors examines a neighbour e,
\* adj(e) holds point_idx (the new edges were added); e is pruned if and only
\* if |adj(e)| > m_max then; after the pruning adj(e) is the keys that
\* select_neighbors keeps of adj(e) before the pruning, with the distances to
\* the point of e and m_max, together with point_idx; a neighbour that is not
\* pruned keeps its adjacency, and the graph is unchanged.
C35_PruningStep ==
    Stepped =>
        /\ PointIdx \in adj(last.before, last.e)
        /\ last.was_pruned <=>
               Cardinality(adj(last.before, last.e)) > options.max_connections
        /\ last.was_pruned =>
               adj(nsw_graph, last.e) =
                   SelectedOf(last.before, last.e, options.max_connections) \cup {PointIdx}
        /\ ~last.was_pruned => nsw_graph = last.before

\* The second neighbour of a list is pruned, point_idx is not among the keys
\* kept, and e lost a neighbour.
C35_Witness ==
    /\ Stepped /\ last.was_pruned /\ last.i = 3
    /\ PointIdx \notin SelectedOf(last.before, last.e, options.max_connections)
    /\ adj(last.before, last.e) \ adj(nsw_graph, last.e) # {}

\* C36: when insert_neighbors(point_idx, neighbors) has ended, point_idx and
\* every identifier of neighbors are adjacent to each other; in a serial add
\* the new node had no edge before, and adj(point_idx) is then exactly the set
\* of neighbors.
C36_InsertionPostcondition ==
    Inserted =>
        /\ \A e \in NeighborSet :
               e \in adj(nsw_graph, PointIdx) /\ PointIdx \in adj(nsw_graph, e)
        /\ last.serial => adj(last.g0, PointIdx) = {}
        /\ adj(last.g0, PointIdx) = {} => adj(nsw_graph, PointIdx) = NeighborSet

\* A serial add of two neighbours that pruned the last of them.
C36_Witness ==
    /\ Inserted /\ last.serial /\ Len(Neighbors) = 2 /\ last.was_pruned
    /\ adj(nsw_graph, PointIdx) = NeighborSet

\* C37: when insert_neighbors(point_idx, neighbors) has ended, the nodes are
\* the ones at its entry, every edge that was not there at its entry joins
\* point_idx and an identifier of neighbors, every pair of nodes outside
\* {point_idx} \cup neighbors is adjacent exactly if it was, and the other
\* graphs are as they were.
C37_InsertionFrame ==
    Inserted =>
        /\ nsw_graph.nodes = last.g0.nodes
        /\ Len(nsw_graph.adj_lists) = Len(last.g0.adj_lists)
        /\ \A v \in NodesOf(nsw_graph) : \A w \in adj(nsw_graph, v) \ adj(last.g0, v) :
               \/ v = PointIdx /\ w \in NeighborSet
               \/ w = PointIdx /\ v \in NeighborSet
        /\ \A v \in NodesOf(nsw_graph) \ ({PointIdx} \cup NeighborSet) :
               adj(nsw_graph, v) \ ({PointIdx} \cup NeighborSet)
                   = adj(last.g0, v) \ ({PointIdx} \cup NeighborSet)
        /\ layers = << >> /\ base = EmptyGraph /\ sg = EmptyGraph

\* An insertion that took an edge from a node outside {point_idx} \cup
\* neighbors.
C37_Witness ==
    /\ Inserted /\ Len(Neighbors) = 2
    /\ \E v \in NodesOf(nsw_graph) \ ({PointIdx} \cup NeighborSet) :
           adj(last.g0, v) \ adj(nsw_graph, v) # {}


\* ------------------------------------------------------------- hand-over of entry points
\* C33: whatever point the HNSW builder is given next and whatever level is
\* drawn for it, the entry point add passes to the graph below a layer it
\* inserted into is the down pointer of the closest neighbour selected in
\* that layer (stated where that neighbour is not the new node itself), and
\* so is the entry point a chunk of extend_parallel passes to the base graph.
C33_EntryPointHandOver ==
    target = "HNSWBuilder" /\ failure = "none" /\ ep # None /\ size(base) < MaxNodes =>
        /\ call = "idle" =>
               \A point \in Sketches, drawn \in 1..MaxLevel :
                   \A hs \in add_hand_overs(layers, base, ep, options, point, drawn) :
                       \A n \in 1..Len(hs) : ~hs[n].own => hs[n].passed = hs[n].down
        /\ call = "chunks" \/ (call = "idle" /\ size(base) = WarmUp) =>
               \A point \in Sketches :
                   \A h \in chunk_hand_overs(layers, base, ep, options, <<point>>) :
                       ~h.own => h.passed = h.down


\* ------------------------------------------------------------- identifiers in bounds
\* The neighbours selected for the point in hand that lost an edge between
\* the searches of the chunk and the entry of insert_neighbors.
StaleNeighbors == {e \in NeighborSet : adj(last.searched, e) \ adj(last.g0, e) # {}}

\* C32: through serial adds, chunks and queries, no search is handed an
\* entry point outside its graph and no insert_idx an identifier outside its
\* graph, so neither failure is reached; the entry point of the NSW builder
\* is a node of its graph; and while insert_neighbors runs, point_idx, every
\* identifier of every neighbour list of the call and every identifier in
\* their adjacency sets is a node of the graph, also for a list selected
\* before an earlier point of the chunk was integrated.
C32_IdentifiersInBounds ==
    /\ failure \notin {"entry point was not in graph",
                       "insert_idx expects point_idx to be in the graph"}
    /\ nsw_ep # None => has(nsw_graph, unwrap(nsw_ep))
    /\ last.op = "insert_neighbors" =>
           \A n \in 1..Len(last.pidxs) :
               /\ has(nsw_graph, last.pidxs[n])
               /\ \A k \in 1..Len(last.lists[n]) :
                      /\ has(nsw_graph, last.lists[n][k])
                      /\ \A idx \in adj(nsw_graph, last.lists[n][k]) : has(nsw_graph, idx)

\* The second point of a chunk has been integrated, with a pruning, from a
\* neighbour list that was stale: one of its neighbours had lost an edge to
\* the integration of the first point.
C32_Witness ==
    /\ Inserted /\ ~last.serial /\ last.j = 2
    /\ StaleNeighbors # {}
    /\ last.was_pruned
    /\ failure = "none"

=============================================================================
